---- MODULE Spec2Model ----
(***************************************************************************)
(* Time-tracking application: the time-entry store (backend/pg-store.js),  *)
(* its REST routes (backend/server.js) and the client timer engine         *)
(* (components/TimeTracking).  Time is counted in whole seconds.           *)
(***************************************************************************)
EXTENDS Integers, Sequences, FiniteSets, TLC

(***************************************************************************)
(* Bounds of the model.                                                    *)
(***************************************************************************)
MaxRows == 2
MaxTime == 1
\* the client's clock: the seconds between two events, and the last second
Step == 10
MaxClientTime == 5 * Step
\* the entries the client starts
MaxTimers == 1

(***************************************************************************)
(* Values.                                                                 *)
(***************************************************************************)
\* SQL NULL of a timestamp or integer column
NULL == 0 - 1
\* employeeCode = null: the call is not ownership-scoped
NoEmployee == ""

JobNos == {"J1", "J1 "}
\* the employees that own entries, and the employeeCode a call passes
Owners == {"E1"}
Callers == {NoEmployee, "E1", "E2"}
TotalInputs == {1}

\* String.prototype.trim on the modelled keys
Trim(s) == IF s = "J1 " THEN "J1" ELSE s

Max(a, b) == IF a >= b THEN a ELSE b

VARIABLES
    rows,       \* the time-entry table: id -> row
    nextId,     \* the next id the table generates
    now,        \* the clock
    lastOp,     \* the last call and its outcome
    sess,       \* the createEntry calls in flight, one per session
    activeTimers,   \* TimeTracking state: id -> local timer
    pausedTimers,   \* TimeTracking state: the ids shown as paused
    lastChange,     \* when activeTimers or pausedTimers was last set
    activeSecs,     \* history: id -> seconds the entry has been active
    users,          \* the users table: id -> row
    nextUserId,     \* the next id the users table generates
    dbUp,           \* the database answers queries
    session,        \* AuthProvider state: token, isAuthenticated
    lastAuth,       \* the last request or login and its outcome
    favorites,      \* the favorites column: emp_code -> list of favorites
    lastFav,        \* the last favorites call and its outcome
    schema,         \* the database: the two tables and their backups
    lastEnsure,     \* the last ensureTable call and its outcome
    fetch,          \* a fetchJobs call: its locals and the requests it issued
    pending,        \* TimeTracking handlers waiting for GPS or for a reply
    popup,          \* the end-timer confirmation: endTotalTime, isAdjusting
    req,            \* a makeRequest call: its attempts, waits and outcome
    pool,           \* the pg pool: the clients checked out by the stores
    favSess,        \* the favorites calls in flight, one per session
    gate            \* an API caller: the tokens it was sent, its last request

vars == <<rows, nextId, now, lastOp, sess, activeTimers, pausedTimers,
          lastChange, activeSecs, users, nextUserId, dbUp, session, lastAuth,
          favorites, lastFav, schema, lastEnsure, fetch,
          pending, popup, req, pool, favSess, gate>>

authVars == <<users, nextUserId, dbUp, session, lastAuth>>

favVars == <<favorites, lastFav>>

schemaVars == <<schema, lastEnsure>>

fetchVars == <<fetch>>

pendingVars == <<pending>>

popupVars == <<popup>>

reqVars == <<req>>

poolVars == <<pool>>

favSessVars == <<favSess>>

gateVars == <<gate>>

\* what the components modelled above leave alone
restVars == <<reqVars, poolVars, favSessVars, gateVars>>

\* the variables of the components other than the time-entry store and the
\* timer engine
compVars == <<authVars, favVars, schemaVars, fetchVars, pendingVars, popupVars, restVars>>

clientVars == <<activeTimers, pausedTimers, lastChange, activeSecs>>

\* what the serial store calls leave alone
others == <<sess, activeTimers, pausedTimers, lastChange, activeSecs, compVars>>

Sessions == {1, 2}

Ids == 1..MaxRows

Has(f, k) == k \in DOMAIN f

\* entry.total_seconds || 0
TotalOf(r) == IF r.total_seconds = NULL THEN 0 ELSE r.total_seconds

(***************************************************************************)
(* PgStore.createEntry                                                     *)
(***************************************************************************)
\* mutant: the default is forgotten, only an explicit 'active' is checked
IsActiveTimerExplicitOnly(entry) ==
    Has(entry, "status") /\ entry.status = "active"

\* isActiveTimer = !entry.status || entry.status === 'active'
IsActiveTimer(entry) == ~Has(entry, "status") \/ entry.status = "active"

\* mutant: the query also asks for status = 'active'
DupCheckActiveOnly(table, entry) ==
    \E i \in DOMAIN table :
        /\ table[i].job_no = Trim(entry.job_no)
        /\ table[i].employee_code = Trim(entry.employee_code)
        /\ table[i].end_time = NULL
        /\ table[i].status = "active"

\* SELECT 1 FROM t WHERE job_no=$1 AND employee_code=$2 AND end_time IS NULL
DupCheck(table, entry) ==
    \E i \in DOMAIN table :
        /\ table[i].job_no = Trim(entry.job_no)
        /\ table[i].employee_code = Trim(entry.employee_code)
        /\ table[i].end_time = NULL

\* the row the dynamic INSERT stores: a column the entry leaves undefined
\* takes the column default
InsertedRow(entry, id, t) ==
    [ id            |-> id,
      job_no        |-> entry.job_no,
      employee_code |-> entry.employee_code,
      status        |-> IF Has(entry, "status") THEN entry.status ELSE "active",
      start_time    |-> t,
      end_time      |-> IF Has(entry, "end_time") THEN entry.end_time ELSE NULL,
      total_seconds |-> IF Has(entry, "total_seconds")
                           THEN entry.total_seconds ELSE NULL,
      updated_at    |-> t ]

CreateRejected(table, entry) == IsActiveTimer(entry) /\ DupCheck(table, entry)

Insert(table, row) ==
    [i \in DOMAIN table \cup {row.id} |-> IF i = row.id THEN row ELSE table[i]]

\* createEntry(entry) on the table, id the UUID the INSERT generates, t = NOW():
\* the table afterwards and the value returned
createEntry(table, entry, id, t) ==
    IF CreateRejected(table, entry)
    THEN [table |-> table, ok |-> FALSE, id |-> 0,
          error |-> "An active timer already exists for this job and employee combination"]
    ELSE [table |-> Insert(table, InsertedRow(entry, id, t)), ok |-> TRUE,
          id |-> id, error |-> ""]

\* the entries a caller passes to createEntry at time t
EntryInputs(t) ==
    UNION { { [job_no |-> j, employee_code |-> e],
              [job_no |-> j, employee_code |-> e, status |-> "active"],
              [job_no |-> j, employee_code |-> e, status |-> "paused"],
              [job_no |-> j, employee_code |-> e, status |-> "completed",
               total_seconds |-> 1, end_time |-> t] }
            : j \in JobNos, e \in Owners }

CreateEntry ==
    \E entry \in EntryInputs(now) :
        LET res == createEntry(rows, entry, nextId, now) IN
        /\ res.ok => nextId <= MaxRows
        /\ rows' = res.table
        /\ nextId' = IF res.ok THEN nextId + 1 ELSE nextId
        /\ lastOp' = [op |-> "create", ok |-> res.ok, id |-> res.id,
                      employeeCode |-> NoEmployee]
        /\ UNCHANGED <<now, others>>

(***************************************************************************)
(* PgStore.stopEntry                                                       *)
(***************************************************************************)
\* mutant: the employee_code clause is never added
OwnedUnscoped(table, id, employeeCode) == id \in DOMAIN table

\* WHERE id = $1 [AND employee_code = $n], the clause added when the caller
\* passes employeeCode
Owned(table, id, employeeCode) ==
    /\ id \in DOMAIN table
    /\ employeeCode # NoEmployee => table[id].employee_code = employeeCode

\* mutant: the WHERE clause lacks end_time IS NULL
StopMatchesStopped(table, id, employeeCode) == Owned(table, id, employeeCode)

\* WHERE id = $1 AND end_time IS NULL [AND employee_code = $n]
StopMatches(table, id, employeeCode) ==
    Owned(table, id, employeeCode) /\ table[id].end_time = NULL

\* SET end_time = NOW(), total_seconds = GREATEST(0, NOW() - start_time),
\*     status = 'Completed', updated_at = NOW()
StoppedRow(r, t) ==
    [r EXCEPT !.end_time = t,
              !.total_seconds = Max(0, t - r.start_time),
              !.status = "Completed",
              !.updated_at = t]

stopEntry(table, id, employeeCode, t) ==
    IF StopMatches(table, id, employeeCode)
    THEN [table |-> [table EXCEPT ![id] = StoppedRow(table[id], t)],
          ok |-> TRUE, id |-> id, error |-> ""]
    ELSE [table |-> table, ok |-> FALSE, id |-> id,
          error |-> "Entry not found or already stopped"]

StopEntry ==
    \E id \in Ids, employeeCode \in Callers :
        LET res == stopEntry(rows, id, employeeCode, now) IN
        /\ rows' = res.table
        /\ lastOp' = [op |-> "stop", ok |-> res.ok, id |-> id,
                      employeeCode |-> employeeCode]
        /\ UNCHANGED <<nextId, now, others>>

(***************************************************************************)
(* PgStore.updateEntry                                                     *)
(***************************************************************************)
\* mutant: end_time is whitelisted too
allowedFieldsWithEndTime ==
    {"job_no", "job_name", "employee_code", "employee_name", "account_no",
     "account_name", "comment", "spire_status", "status", "total_seconds",
     "start_time", "start_location", "end_location", "end_time"}

allowedFields ==
    {"job_no", "job_name", "employee_code", "employee_name", "account_no",
     "account_name", "comment", "spire_status", "status", "total_seconds",
     "start_time", "start_location", "end_location"}

\* information_schema.columns of the table, projected on the columns the
\* store's conditions read or compute; the other columns (names, account,
\* comment, spire_status, locations, created_at) only carry data
existingColumns ==
    {"id", "job_no", "employee_code", "status", "start_time", "end_time",
     "total_seconds", "updated_at"}

\* the keys of the request that reach the SET clause
UpdateFields(updates) ==
    {k \in DOMAIN updates : k \in allowedFields /\ k \in existingColumns}

\* mutant: a request without status resets the column to its default
UpdatedRowDefaultStatus(r, updates, t) ==
    [c \in DOMAIN r |->
        IF c \in UpdateFields(updates) THEN updates[c]
        ELSE IF c = "updated_at" THEN t
        ELSE IF c = "status" THEN "active"
        ELSE r[c]]

\* SET key = $n for every key of UpdateFields, updated_at = NOW()
UpdatedRow(r, updates, t) ==
    [c \in DOMAIN r |->
        IF c \in UpdateFields(updates) THEN updates[c]
        ELSE IF c = "updated_at" THEN t
        ELSE r[c]]

updateEntry(table, id, updates, employeeCode, t) ==
    IF UpdateFields(updates) = {}
    THEN [table |-> table, ok |-> FALSE, id |-> id,
          error |-> "No valid fields to update"]
    ELSE IF Owned(table, id, employeeCode)
    THEN [table |-> [table EXCEPT ![id] = UpdatedRow(table[id], updates, t)],
          ok |-> TRUE, id |-> id, error |-> ""]
    ELSE [table |-> table, ok |-> FALSE, id |-> id, error |-> "Entry not found"]

\* the client's requests (TimeTracking.updateTimer, sync effect)
PauseRequest(total, t) ==
    [total_seconds |-> total, start_time |-> t, status |-> "paused"]
ResumeRequest(t) == [status |-> "active", start_time |-> t]
EndRequest(total, t) ==
    [total_seconds |-> total, comment |-> "done", status |-> "completed",
     end_location |-> "gps", end_time |-> t]
SyncRequest(total) == [total_seconds |-> total]

\* the request bodies a caller passes to updateEntry at time t
UpdateInputs(t) ==
    {PauseRequest(s, t) : s \in TotalInputs}
        \cup {ResumeRequest(t)}
        \cup {EndRequest(s, t) : s \in TotalInputs}
        \cup {SyncRequest(s) : s \in TotalInputs}
        \cup {[end_time |-> t, id |-> 0, created_at |-> 0]}

UpdateEntry ==
    \E id \in Ids, employeeCode \in Callers, updates \in UpdateInputs(now) :
        LET res == updateEntry(rows, id, updates, employeeCode, now) IN
        /\ rows' = res.table
        /\ lastOp' = [op |-> "update", ok |-> res.ok, id |-> id,
                      employeeCode |-> employeeCode]
        /\ UNCHANGED <<nextId, now, others>>

(***************************************************************************)
(* PgStore.deleteEntry                                                     *)
(***************************************************************************)
deleteEntry(table, id, employeeCode) ==
    IF Owned(table, id, employeeCode)
    THEN [table |-> [i \in DOMAIN table \ {id} |-> table[i]], ok |-> TRUE,
          id |-> id, error |-> ""]
    ELSE [table |-> table, ok |-> FALSE, id |-> id, error |-> "Entry not found"]

DeleteEntry ==
    \E id \in Ids, employeeCode \in Callers :
        LET res == deleteEntry(rows, id, employeeCode) IN
        /\ rows' = res.table
        /\ lastOp' = [op |-> "delete", ok |-> res.ok, id |-> id,
                      employeeCode |-> employeeCode]
        /\ UNCHANGED <<nextId, now, others>>

(***************************************************************************)
(* PgStore.getEntryById, PgStore.getAllEntries                             *)
(***************************************************************************)
getEntryById(table, id, employeeCode) ==
    IF Owned(table, id, employeeCode)
    THEN [ok |-> TRUE, entry |-> table[id], error |-> ""]
    ELSE [ok |-> FALSE, entry |-> <<>>, error |-> "Entry not found"]

\* LIMIT $n, 100 unless the caller passes another
DefaultLimit == 100

\* SELECT * [WHERE employee_code = $1] ORDER BY created_at DESC LIMIT $n: the
\* ids of the rows returned, the table holding fewer rows than the limit
getAllEntries(table, limit, employeeCode) ==
    IF Cardinality(DOMAIN table) <= limit
    THEN {i \in DOMAIN table :
            employeeCode # NoEmployee => table[i].employee_code = employeeCode}
    ELSE {}

(***************************************************************************)
(* The clock: NOW() and new Date()                                         *)
(***************************************************************************)
Advance ==
    /\ now < MaxTime
    /\ now' = now + 1
    /\ lastOp' = [op |-> "advance", ok |-> TRUE, id |-> 0,
                  employeeCode |-> NoEmployee]
    /\ UNCHANGED <<rows, nextId, others>>

\* makeRequest has not been called
NoCall == [status |-> "idle", copy |-> "", retryCount |-> 0, attempts |-> 0,
           errors |-> <<>>, waits |-> <<>>, thrown |-> <<>>]

\* no client is checked out of the pool, no store call is running
NoPool == [out |-> 0, call |-> "", seg |-> 0, step |-> 0, held |-> FALSE,
           failed |-> FALSE, success |-> TRUE]

\* the API caller holds no token and has sent no request
NoGate == [issued |-> {}, last |-> [op |-> "none"]]

\* no favorites call is in flight
NoFavSess ==
    [s \in {1, 2} |-> [pc |-> "idle", jobData |-> <<>>,
                       currentFavorites |-> <<>>]]

(***************************************************************************)
(* The store, its calls issued serially.                                   *)
(***************************************************************************)
InitCore ==
    /\ rows = <<>>
    /\ nextId = 1
    /\ now = 0
    /\ lastOp = [op |-> "none", ok |-> TRUE, id |-> 0,
                 employeeCode |-> NoEmployee]
    /\ sess = [s \in Sessions |-> [pc |-> "idle", entry |-> <<>>]]
    /\ activeTimers = <<>>
    /\ pausedTimers = {}
    /\ lastChange = 0
    /\ activeSecs = <<>>
    /\ users = <<>>
    /\ nextUserId = 1
    /\ dbUp = TRUE
    /\ session = [token |-> [missing |-> TRUE], isAuthenticated |-> FALSE]
    /\ lastAuth = [op |-> "none", status |-> 0, code |-> "", error |-> "",
                   next |-> FALSE, lookup |-> "none"]
    /\ favorites = [e \in {"E1"} |-> <<>>]
    /\ lastFav = [op |-> "none", ok |-> TRUE, action |-> ""]
    /\ pending = {}
    /\ req = NoCall
    /\ pool = NoPool
    /\ favSess = NoFavSess
    /\ gate = NoGate

\* a database without tables, as the stores find it on the first run
NoBackup == [exists |-> FALSE, columns |-> {}, data |-> {}]
NoTable ==
    [exists |-> FALSE, idType |-> "", columns |-> {}, indexes |-> {},
     data |-> {}, backup |-> NoBackup]
NoStep == [op |-> "none", col |-> ""]

\* the end-timer confirmation is closed
NoPopup == [endTotalTime |-> <<>>, isAdjusting |-> FALSE, shown |-> 0,
            adjusted |-> FALSE]

\* no fetchJobs call has been made
NoFetch ==
    [pc |-> "none", dataset |-> 0, count |-> 0, allJobs |-> <<>>,
     totalCount |-> 0, offset |-> 0, hasMore |-> FALSE, pageCount |-> 0,
     requests |-> <<>>, failures |-> 0]

Init ==
    /\ InitCore
    /\ schema = [entries |-> NoTable, users |-> NoTable]
    /\ lastEnsure = [store |-> "", success |-> TRUE, failAt |-> NoStep,
                     changes |-> {}]
    /\ fetch = NoFetch
    /\ popup = NoPopup

Next ==
    \/ CreateEntry
    \/ StopEntry
    \/ UpdateEntry
    \/ DeleteEntry
    \/ Advance

Spec == Init /\ [][Next]_vars

(***************************************************************************)
(* createEntry called from two sessions: the duplicate check and the       *)
(* INSERT are two statements on the pool, and another session's statements *)
(* may run between them.                                                   *)
(***************************************************************************)
Inserting == {s \in Sessions : sess[s].pc = "insert"}

\* mutant: a partial unique index on (job_no, employee_code) of the active
\* open rows makes the INSERT fail
InsertAcceptedUniqueIndex(table, entry) ==
    ~(/\ IsActiveTimer(entry)
      /\ ~Has(entry, "end_time")
      /\ \E i \in DOMAIN table :
            /\ table[i].job_no = entry.job_no
            /\ table[i].employee_code = entry.employee_code
            /\ table[i].status = "active"
            /\ table[i].end_time = NULL)

\* the table has a primary key on id and no other unique constraint: the
\* INSERT of a row with a fresh id succeeds
InsertAccepted(table, entry) == TRUE

\* the columns query and the duplicate check of createEntry
RaceCheck(s) ==
    /\ sess[s].pc = "idle"
    /\ nextId + Cardinality(Inserting) <= MaxRows
    /\ \E entry \in EntryInputs(now) :
        IF CreateRejected(rows, entry)
        THEN /\ lastOp' = [op |-> "create", ok |-> FALSE, id |-> 0,
                           employeeCode |-> NoEmployee]
             /\ UNCHANGED <<rows, nextId, now, sess, compVars, clientVars>>
        ELSE /\ sess' = [sess EXCEPT ![s] = [pc |-> "insert", entry |-> entry]]
             /\ lastOp' = [op |-> "check", ok |-> TRUE, id |-> 0,
                           employeeCode |-> NoEmployee]
             /\ UNCHANGED <<rows, nextId, now, clientVars, compVars>>

\* the INSERT of createEntry and its return
RaceInsert(s) ==
    /\ sess[s].pc = "insert"
    /\ IF InsertAccepted(rows, sess[s].entry)
       THEN /\ rows' = Insert(rows, InsertedRow(sess[s].entry, nextId, now))
            /\ nextId' = nextId + 1
            /\ lastOp' = [op |-> "create", ok |-> TRUE, id |-> nextId,
                          employeeCode |-> NoEmployee]
       ELSE /\ lastOp' = [op |-> "create", ok |-> FALSE, id |-> 0,
                          employeeCode |-> NoEmployee]
            /\ UNCHANGED <<rows, nextId>>
    /\ sess' = [sess EXCEPT ![s] = [pc |-> "idle", entry |-> <<>>]]
    /\ UNCHANGED <<now, clientVars, compVars>>

NextRace ==
    \/ \E s \in Sessions : RaceCheck(s)
    \/ \E s \in Sessions : RaceInsert(s)
    \/ Advance

SpecRace == Init /\ [][NextRace]_vars

(***************************************************************************)
(* The client timer engine (TimeTracking component) of one logged-in       *)
(* employee, its calls going through the REST routes to the store.         *)
(***************************************************************************)
\* the employee of the token: the routes pass it as employeeCode
Employee == "E1"
ClientJobs == {"J1", "J2"}

\* the sync effect: setInterval(..., 30000), and the drift, in seconds, above
\* which a timer is written
SyncInterval == 30
SyncThreshold == 10

Abs(x) == IF x < 0 THEN 0 - x ELSE x

\* (timer.total_seconds || 0) * 1000 + (Date.now() - timer.startTime.getTime())
ElapsedTime(total, startTime, t) == total * 1000 + (t - startTime) * 1000

\* Math.floor(timer.elapsedTime / 1000)
ElapsedSeconds(timer) == timer.elapsedTime \div 1000

\* timer.status === 'active' && !pausedTimers.has(timer.id)
Running(timers, paused) ==
    {i \in DOMAIN timers : timers[i].status = "active" /\ i \notin paused}

\* the list renders the timers whose status is active or paused
Displayed(timers) ==
    {i \in DOMAIN timers : timers[i].status \in {"active", "paused"}}

\* the display of the timer is the one a tick at this second draws: the user
\* presses a button of a timer whose display is current
DisplayFresh(timer, t) ==
    timer.status # "paused" =>
        timer.elapsedTime = ElapsedTime(timer.total_seconds, timer.startTime, t)

ClientOp(op, ok, id) ==
    [op |-> op, ok |-> ok, id |-> id, employeeCode |-> Employee]

\* handleStartTimer: refused while a timer is running or while a paused timer
\* of the job exists, else POST /api/time-entries and, on success, a new local
\* timer
StartTimer ==
    \E job \in ClientJobs :
        LET entry == [job_no |-> job, employee_code |-> Employee,
                      status |-> "active"]
            res == createEntry(rows, entry, nextId, now)
            blocked ==
                \/ Running(activeTimers, pausedTimers) # {}
                \/ \E i \in DOMAIN activeTimers :
                    activeTimers[i].job_no = job /\ i \in pausedTimers
        IN  IF blocked
            THEN /\ lastOp' = ClientOp("start", FALSE, 0)
                 /\ UNCHANGED <<rows, nextId, now, sess, compVars, clientVars>>
            ELSE /\ res.ok => nextId <= MaxTimers
                 /\ rows' = res.table
                 /\ nextId' = IF res.ok THEN nextId + 1 ELSE nextId
                 /\ lastOp' = ClientOp("start", res.ok, res.id)
                 /\ IF res.ok
                    THEN /\ activeTimers' =
                                Insert(activeTimers,
                                       [id |-> res.id, job_no |-> job,
                                        status |-> "active", total_seconds |-> 0,
                                        startTime |-> now, elapsedTime |-> 0])
                         /\ lastChange' = now
                         /\ activeSecs' =
                                [i \in DOMAIN activeSecs \cup {res.id} |->
                                    IF i = res.id THEN 0 ELSE activeSecs[i]]
                    ELSE UNCHANGED <<activeTimers, lastChange, activeSecs>>
                 /\ UNCHANGED <<now, sess, compVars, pausedTimers>>

\* the tick effect: every timer that is not paused gets its elapsedTime
\* recomputed; the new array re-registers the sync effect
Tick ==
    /\ DOMAIN activeTimers # {}
    /\ activeTimers' =
        [i \in DOMAIN activeTimers |->
            IF activeTimers[i].status = "paused" THEN activeTimers[i]
            ELSE [activeTimers[i] EXCEPT !.elapsedTime =
                    ElapsedTime(activeTimers[i].total_seconds,
                                activeTimers[i].startTime, now)]]
    /\ lastChange' = now
    /\ lastOp' = ClientOp("tick", TRUE, 0)
    /\ UNCHANGED <<rows, nextId, now, sess, compVars, pausedTimers, activeSecs>>

\* the timers the sync pass writes: running, and more than 10 seconds from
\* the total_seconds last known
ToSync(timers, paused) ==
    {i \in Running(timers, paused) :
        Abs(ElapsedSeconds(timers[i]) - timers[i].total_seconds) > SyncThreshold}

\* the rows after the PUT /api/time-entries/:id of every timer of the set
RECURSIVE SyncRows(_, _, _, _)
SyncRows(table, timers, ids, t) ==
    IF ids = {} THEN table
    ELSE LET i == CHOOSE x \in ids : TRUE
             res == updateEntry(table, i, SyncRequest(ElapsedSeconds(timers[i])),
                                Employee, t)
         IN  SyncRows(res.table, timers, ids \ {i}, t)

\* the sync effect, 30 seconds after activeTimers and pausedTimers were last
\* set: total_seconds of every timer of ToSync is written to the server and,
\* the write accepted, to the local timer
Sync ==
    /\ DOMAIN activeTimers # {}
    /\ now >= lastChange + SyncInterval
    /\ LET ids == ToSync(activeTimers, pausedTimers)
           written == {i \in ids : Owned(rows, i, Employee)}
       IN  /\ ids # {}
           /\ rows' = SyncRows(rows, activeTimers, ids, now)
           /\ activeTimers' =
                [i \in DOMAIN activeTimers |->
                    IF i \in written
                    THEN [activeTimers[i] EXCEPT !.total_seconds =
                            ElapsedSeconds(activeTimers[i])]
                    ELSE activeTimers[i]]
           /\ lastChange' = IF written # {} THEN now ELSE lastChange
           /\ lastOp' = ClientOp("sync", written # {},
                                 IF written # {} THEN CHOOSE i \in written : TRUE
                                 ELSE 0)
    /\ UNCHANGED <<nextId, now, sess, compVars, pausedTimers, activeSecs>>

\* handlePauseTimer on a timer that is not in pausedTimers:
\* updateTimer(id, 'pause')
PauseTimer ==
    \E id \in Displayed(activeTimers) \ pausedTimers :
        LET timer == activeTimers[id]
            updateData == PauseRequest(ElapsedSeconds(timer), now)
            res == updateEntry(rows, id, updateData, Employee, now)
        IN  /\ DisplayFresh(timer, now)
            /\ rows' = res.table
            /\ lastOp' = ClientOp("pause", res.ok, id)
            /\ IF res.ok
               THEN /\ pausedTimers' = pausedTimers \cup {id}
                    /\ activeTimers' =
                        [activeTimers EXCEPT ![id] =
                            [timer EXCEPT !.status = "paused",
                                          !.total_seconds = updateData.total_seconds,
                                          !.startTime = updateData.start_time]]
                    /\ lastChange' = now
               ELSE UNCHANGED <<pausedTimers, activeTimers, lastChange>>
            /\ UNCHANGED <<nextId, now, sess, compVars, activeSecs>>

\* handlePauseTimer on a timer of pausedTimers: updateTimer(id, 'resume'),
\* refused while another timer is running
ResumeTimer ==
    \E id \in Displayed(activeTimers) \cap pausedTimers :
        LET timer == activeTimers[id]
            updateData == ResumeRequest(now)
            res == updateEntry(rows, id, updateData, Employee, now)
        IN  IF Running(activeTimers, pausedTimers) # {}
            THEN /\ lastOp' = ClientOp("resume", FALSE, id)
                 /\ UNCHANGED <<rows, nextId, now, sess, compVars, clientVars>>
            ELSE /\ rows' = res.table
                 /\ lastOp' = ClientOp("resume", res.ok, id)
                 /\ IF res.ok
                    THEN /\ pausedTimers' = pausedTimers \ {id}
                         /\ activeTimers' =
                             [activeTimers EXCEPT ![id] =
                                 [timer EXCEPT !.status = "active",
                                               !.startTime = updateData.start_time]]
                         /\ lastChange' = now
                    ELSE UNCHANGED <<pausedTimers, activeTimers, lastChange>>
                 /\ UNCHANGED <<nextId, now, sess, compVars, activeSecs>>

\* handleStopTimer and handleConfirmEndTimer, the total left as proposed:
\* updateTimer(id, 'end')
EndTimer ==
    \E id \in Displayed(activeTimers) :
        LET timer == activeTimers[id]
            totalSeconds == IF id \in pausedTimers THEN timer.total_seconds
                            ELSE ElapsedSeconds(timer)
            res == updateEntry(rows, id, EndRequest(totalSeconds, now),
                               Employee, now)
        IN  /\ DisplayFresh(timer, now)
            /\ rows' = res.table
            /\ lastOp' = ClientOp("end", res.ok, id)
            /\ IF res.ok
               THEN /\ activeTimers' =
                        [i \in DOMAIN activeTimers \ {id} |-> activeTimers[i]]
                    /\ pausedTimers' = pausedTimers \ {id}
                    /\ lastChange' = now
               ELSE UNCHANGED <<pausedTimers, activeTimers, lastChange>>
            /\ UNCHANGED <<nextId, now, sess, compVars, activeSecs>>

\* GET /api/time-entries/active: getActiveEntries(employeeCode)
getActiveEntries(table, employeeCode) ==
    {i \in DOMAIN table :
        /\ table[i].end_time = NULL
        /\ employeeCode # NoEmployee => table[i].employee_code = employeeCode}

\* the page is loaded: fetchActiveEntries replaces the local timers by the
\* open rows of the employee
Reload ==
    LET open == getActiveEntries(rows, Employee) IN
    /\ activeTimers' =
        [i \in open |->
            [id |-> i, job_no |-> rows[i].job_no, status |-> rows[i].status,
             total_seconds |-> TotalOf(rows[i]),
             startTime |-> rows[i].start_time,
             elapsedTime |-> ElapsedTime(TotalOf(rows[i]), rows[i].start_time,
                                         now)]]
    /\ pausedTimers' = {i \in open : rows[i].status = "paused"}
    /\ lastChange' = now
    /\ lastOp' = ClientOp("reload", TRUE, 0)
    /\ UNCHANGED <<rows, nextId, now, sess, compVars, activeSecs>>

\* PUT /api/time-entries/:id/stop with the employee's token
StopRoute ==
    \E id \in Ids :
        LET res == stopEntry(rows, id, Employee, now) IN
        /\ rows' = res.table
        /\ lastOp' = ClientOp("stop", res.ok, id)
        /\ UNCHANGED <<nextId, now, sess, compVars, clientVars>>

\* Step seconds pass: every open row whose status is active has been active
\* for them
ClientAdvance ==
    /\ now + Step <= MaxClientTime
    /\ now' = now + Step
    /\ activeSecs' =
        [i \in DOMAIN activeSecs |->
            IF i \in DOMAIN rows /\ rows[i].status = "active"
                                 /\ rows[i].end_time = NULL
            THEN activeSecs[i] + Step ELSE activeSecs[i]]
    /\ lastOp' = ClientOp("advance", TRUE, 0)
    /\ UNCHANGED <<rows, nextId, sess, compVars, activeTimers, pausedTimers, lastChange>>

NextClient ==
    \/ StartTimer
    \/ Tick
    \/ Sync
    \/ PauseTimer
    \/ ResumeTimer
    \/ EndTimer
    \/ Reload
    \/ StopRoute
    \/ ClientAdvance

SpecClient == Init /\ [][NextClient]_vars

\* the timer engine with its scheduling: the clock runs, the tick interval
\* fires while there are timers, and the sync interval fires once it is due;
\* nothing obliges the user to press a button
SpecClientLive ==
    /\ Init /\ [][NextClient]_vars
    /\ WF_vars(ClientAdvance)
    /\ WF_vars(Tick)
    /\ WF_vars(Sync)

(***************************************************************************)
(* Authentication: the users table (backend/user-store.js), the token      *)
(* middleware (backend/middleware/auth.js), the login route and the        *)
(* client's AuthProvider.login.                                            *)
(***************************************************************************)
MaxUsers == 2
UserIds == 1..MaxUsers
EmpCodes == {"E1", "E2"}
Passwords == {"secret1"}
LoginPasswords == {"secret1", "secret2"}

\* crypto.createHash('sha256').update(password).digest('hex')
encodePassword(password) == <<"sha256", password>>

verifyPassword(password, encodedPassword) ==
    encodePassword(password) = encodedPassword

\* expiresIn: '24h', in seconds
TokenLife == 86400

\* no token: the header is absent or holds no second word
NoToken == [missing |-> TRUE]

\* jwt.sign({id, empcode, verified}, JWT_SECRET, {expiresIn: '24h'}) at time t
generateToken(user, t) ==
    [signed |-> TRUE, exp |-> t + TokenLife, id |-> user.id,
     empcode |-> user.emp_code, verified |-> user.verified]

\* jwt.verify(token, JWT_SECRET) at time t does not throw
jwtVerify(token, t) == token.signed /\ t < token.exp

\* authHeader && authHeader.split(' ')[1], the header a sequence of words
TokenOf(header) == IF Len(header) >= 2 THEN header[2] ELSE NoToken

\* SELECT id, emp_code, verified FROM users WHERE id = $1 AND emp_code = $2
UserCheck(table, decoded) ==
    {i \in DOMAIN table : i = decoded.id /\ table[i].emp_code = decoded.empcode}

\* mutant: the verified column is not looked at
RowVerifiedAlways(table, i) == TRUE

\* userResult.rows[0].verified
RowVerified(table, i) == table[i].verified

\* mutant: a failed user query rejects the request
OnLookupFailureRejects(decoded) ==
    [status |-> 500, code |-> "", error |-> "Database unavailable",
     next |-> FALSE, lookup |-> "failed", user |-> <<>>]

\* catch (dbError): the request proceeds, req.user = decoded
OnLookupFailure(decoded) ==
    [status |-> 0, code |-> "", error |-> "", next |-> TRUE,
     lookup |-> "failed", user |-> decoded]

\* authenticateToken(req, res, next): the response sent, or next() called with
\* req.user set
authenticateToken(header, table, up, t) ==
    LET token == TokenOf(header) IN
    IF token = NoToken
    THEN [status |-> 401, code |-> "", error |-> "Access token required",
          next |-> FALSE, lookup |-> "none", user |-> <<>>]
    ELSE IF ~jwtVerify(token, t)
    THEN [status |-> 403, code |-> "", error |-> "Invalid or expired token",
          next |-> FALSE, lookup |-> "none", user |-> <<>>]
    ELSE IF ~up THEN OnLookupFailure(token)
    ELSE IF UserCheck(table, token) = {}
    THEN [status |-> 401, code |-> "USER_DELETED",
          error |-> "User no longer exists or has been deleted",
          next |-> FALSE, lookup |-> "ok", user |-> <<>>]
    ELSE IF ~RowVerified(table, CHOOSE i \in UserCheck(table, token) : TRUE)
    THEN [status |-> 401, code |-> "USER_NOT_VERIFIED",
          error |-> "User account is not verified",
          next |-> FALSE, lookup |-> "ok", user |-> <<>>]
    ELSE [status |-> 0, code |-> "", error |-> "", next |-> TRUE,
          lookup |-> "ok", user |-> token]

\* the Authorization headers a request carries at time t
HeaderInputs(t) ==
    {<<>>, <<"Bearer">>}
        \cup {<<"Bearer", [signed |-> s, exp |-> x, id |-> i, empcode |-> e,
                           verified |-> TRUE]>> :
                s \in BOOLEAN, x \in {t, t + TokenLife}, i \in UserIds,
                e \in EmpCodes}

\* the rows WHERE emp_code = $1 selects
UsersByEmpCode(table, emp_code) ==
    {i \in DOMAIN table : table[i].emp_code = emp_code}

\* UserStore.createUser: emp_code is unique, verified starts FALSE
createUser(table, up, id, emp_code, password) ==
    IF emp_code = "" \/ password = ""
    THEN [table |-> table, ok |-> FALSE,
          error |-> "Employee code and password are required"]
    ELSE IF ~up
    THEN [table |-> table, ok |-> FALSE, error |-> "connection error"]
    ELSE IF UsersByEmpCode(table, emp_code) # {}
    THEN [table |-> table, ok |-> FALSE,
          error |-> "Account already exists. Please go to login page."]
    ELSE [table |-> [i \in DOMAIN table \cup {id} |->
                        IF i = id
                        THEN [emp_code |-> emp_code,
                              password |-> encodePassword(password),
                              verified |-> FALSE]
                        ELSE table[i]],
          ok |-> TRUE, error |-> ""]

\* UserStore.verifyUser: SET verified = TRUE WHERE emp_code = $1
verifyUser(table, emp_code) ==
    [i \in DOMAIN table |->
        IF table[i].emp_code = emp_code
        THEN [table[i] EXCEPT !.verified = TRUE] ELSE table[i]]

\* UserStore.deleteUser: DELETE WHERE emp_code = $1
deleteUser(table, emp_code) ==
    [i \in DOMAIN table \ UsersByEmpCode(table, emp_code) |-> table[i]]

\* UserStore.checkUserExists
checkUserExists(table, up, emp_code) ==
    up /\ UsersByEmpCode(table, emp_code) # {}

\* UserStore.verifyPassword(emp_code, password): success and the user
checkPassword(table, up, emp_code, password) ==
    /\ up
    /\ \E i \in UsersByEmpCode(table, emp_code) :
        verifyPassword(password, table[i].password)

\* POST /api/users/login: the status and the JSON body of the response
loginRoute(table, up, emp_code, password, t) ==
    IF emp_code = "" \/ password = ""
    THEN [status |-> 400, success |-> FALSE, code |-> "",
          error |-> "Employee code and password are required"]
    ELSE IF ~checkUserExists(table, up, Trim(emp_code))
    THEN [status |-> 401, success |-> FALSE, code |-> "USER_NOT_FOUND",
          error |-> "User not found. Please go to register."]
    ELSE IF ~checkPassword(table, up, Trim(emp_code), password)
    THEN [status |-> 401, success |-> FALSE, code |-> "INVALID_PASSWORD",
          error |-> "Invalid credentials"]
    ELSE LET i == CHOOSE i \in UsersByEmpCode(table, Trim(emp_code)) : TRUE
             user == [id |-> i, emp_code |-> table[i].emp_code,
                      verified |-> table[i].verified]
         IN  [status |-> 200, success |-> TRUE, code |-> "", error |-> "",
              token |-> generateToken(user, t), user |-> user]

\* mutant: the client keeps the token of any successful response
loginKeepsAnyToken(state, data) ==
    IF data.success
    THEN [session |-> [token |-> data.token, isAuthenticated |-> TRUE],
          success |-> TRUE, error |-> "", code |-> ""]
    ELSE [session |-> state, success |-> FALSE, error |-> data.error,
          code |-> data.code]

\* AuthProvider.login on the response data: the session afterwards and the
\* result returned to handleLogin
login(state, data) ==
    IF data.success
    THEN IF ~data.user.verified
         THEN [session |-> state, success |-> FALSE,
               error |-> "Account not verified", code |-> ""]
         ELSE [session |-> [token |-> data.token, isAuthenticated |-> TRUE],
               success |-> TRUE, error |-> "", code |-> ""]
    ELSE IF data.code = "USER_NOT_FOUND"
    THEN [session |-> state, success |-> FALSE,
          error |-> "User not found. Please go to register.",
          code |-> "USER_NOT_FOUND"]
    ELSE IF data.code = "INVALID_PASSWORD"
    THEN [session |-> state, success |-> FALSE, error |-> "Invalid credentials",
          code |-> "INVALID_PASSWORD"]
    ELSE [session |-> state, success |-> FALSE, error |-> data.error,
          code |-> ""]

\* what the authentication steps leave alone
notAuth == <<rows, nextId, lastOp, sess, clientVars, favVars, schemaVars,
            fetchVars, pendingVars, popupVars, restVars>>

\* POST /api/users/signup
Signup ==
    \E emp_code \in EmpCodes, password \in Passwords :
        LET res == createUser(users, dbUp, nextUserId, Trim(emp_code), password)
        IN  /\ res.ok => nextUserId <= MaxUsers
            /\ users' = res.table
            /\ nextUserId' = IF res.ok THEN nextUserId + 1 ELSE nextUserId
            /\ lastAuth' = [op |-> "signup",
                            status |-> IF res.ok THEN 201 ELSE 400,
                            code |-> "", error |-> res.error, next |-> FALSE,
                            lookup |-> "none"]
            /\ UNCHANGED <<dbUp, session, now, notAuth>>

\* PUT /api/users/:emp_code/verify
VerifyUser ==
    \E emp_code \in EmpCodes :
        /\ dbUp
        /\ UsersByEmpCode(users, emp_code) # {}
        /\ users' = verifyUser(users, emp_code)
        /\ lastAuth' = [op |-> "verify", status |-> 200, code |-> "",
                        error |-> "", next |-> FALSE, lookup |-> "none"]
        /\ UNCHANGED <<nextUserId, dbUp, session, now, notAuth>>

\* DELETE /api/users/:emp_code
DeleteUser ==
    \E emp_code \in EmpCodes :
        /\ dbUp
        /\ UsersByEmpCode(users, emp_code) # {}
        /\ users' = deleteUser(users, emp_code)
        /\ lastAuth' = [op |-> "delete", status |-> 200, code |-> "",
                        error |-> "", next |-> FALSE, lookup |-> "none"]
        /\ UNCHANGED <<nextUserId, dbUp, session, now, notAuth>>

\* the database becomes unreachable, or reachable again
DbFlip ==
    /\ dbUp' = ~dbUp
    /\ UNCHANGED <<users, nextUserId, session, lastAuth, now, notAuth>>

\* a request to a protected route
Authenticate ==
    \E header \in HeaderInputs(now) \cup {<<"Bearer", session.token>>} :
        LET res == authenticateToken(header, users, dbUp, now) IN
        /\ lastAuth' = [op |-> "request", status |-> res.status,
                        code |-> res.code, error |-> res.error,
                        next |-> res.next, lookup |-> res.lookup]
        /\ UNCHANGED <<users, nextUserId, dbUp, session, now, notAuth>>

\* handleLogin: the login page is shown while the session is not
\* authenticated
Login ==
    \E emp_code \in EmpCodes, password \in LoginPasswords :
        LET data == loginRoute(users, dbUp, emp_code, password, now)
            res == login(session, data)
        IN  /\ ~session.isAuthenticated
            /\ session' = res.session
            /\ lastAuth' = [op |-> "login", status |-> data.status,
                            code |-> res.code, error |-> res.error,
                            next |-> FALSE, lookup |-> "none"]
            /\ UNCHANGED <<users, nextUserId, dbUp, now, notAuth>>

\* AuthProvider.logout and handleUserDeleted
Logout ==
    /\ session.isAuthenticated
    /\ session' = [token |-> NoToken, isAuthenticated |-> FALSE]
    /\ lastAuth' = [op |-> "logout", status |-> 0, code |-> "", error |-> "",
                    next |-> FALSE, lookup |-> "none"]
    /\ UNCHANGED <<users, nextUserId, dbUp, now, notAuth>>

NextAuth ==
    \/ Signup
    \/ VerifyUser
    \/ DeleteUser
    \/ DbFlip
    \/ Authenticate
    \/ Login
    \/ Logout
    \/ Advance

SpecAuth == Init /\ [][NextAuth]_vars

(***************************************************************************)
(* Favorites (backend/user-store.js): the favorites column of a user row   *)
(* holds a JSON array, rewritten whole by every call.                      *)
(***************************************************************************)
\* the users that have a row, and the emp_code a call passes
FavUsers == {"E1"}
FavCallers == {"E1", "E2"}

\* the jobData a caller passes
FavInputs ==
    {[job_no |-> j, job_name |-> "job", acc_no |-> a[1], acc_name |-> a[2]] :
        j \in {"J1", "J2"}, a \in {<<"A1", "cash">>, <<"A2", "bank">>}}

\* object spread {...a, ...b}
Spread(a, b) ==
    [k \in DOMAIN a \cup DOMAIN b |-> IF k \in DOMAIN b THEN b[k] ELSE a[k]]

\* mutant: the job is never found in the list
findIndexNever(list, job_no) == 0

\* currentFavorites.findIndex(fav => fav.job_no === job_no), counted from 1,
\* 0 when no entry matches
findIndex(list, job_no) ==
    IF \E i \in 1..Len(list) : list[i].job_no = job_no
    THEN CHOOSE i \in 1..Len(list) :
            /\ list[i].job_no = job_no
            /\ \A k \in 1..(i - 1) : list[k].job_no # job_no
    ELSE 0

\* the list after addJobToFavorites(emp_code, jobData) at time t
addJobToFavorites(list, jobData, t) ==
    LET existingIndex == findIndex(list, jobData.job_no) IN
    IF existingIndex # 0
    THEN [list EXCEPT ![existingIndex] =
            Spread(list[existingIndex],
                   [acc_no |-> jobData.acc_no, acc_name |-> jobData.acc_name,
                    updated_at |-> t])]
    ELSE Append(list, Spread(jobData, [added_at |-> t]))

\* currentFavorites.filter(fav => fav.job_no !== job_no)
removeJobFromFavorites(list, job_no) ==
    SelectSeq(list, LAMBDA fav : fav.job_no # job_no)

\* list.splice(index, 1)
Splice(list, index) ==
    [k \in 1..(Len(list) - 1) |-> IF k < index THEN list[k] ELSE list[k + 1]]

\* the list after toggleJobFavorite(emp_code, jobData) at time t
toggleJobFavorite(list, jobData, t) ==
    LET existingIndex == findIndex(list, jobData.job_no) IN
    IF existingIndex # 0 THEN Splice(list, existingIndex)
    ELSE Append(list, Spread(jobData, [added_at |-> t]))

\* what the favorites calls leave alone
notFav == <<rows, nextId, lastOp, sess, clientVars, authVars, schemaVars,
           fetchVars, pendingVars, popupVars, restVars>>

\* a call for an emp_code without row returns 'User not found' and writes
\* nothing
AddJobToFavorites ==
    \E emp_code \in FavCallers, jobData \in FavInputs :
        /\ IF emp_code \in FavUsers
           THEN /\ favorites' = [favorites EXCEPT ![emp_code] =
                        addJobToFavorites(favorites[emp_code], jobData, now)]
                /\ lastFav' = [op |-> "add", ok |-> TRUE,
                               action |-> IF findIndex(favorites[emp_code],
                                                       jobData.job_no) # 0
                                          THEN "updated" ELSE "added"]
           ELSE /\ lastFav' = [op |-> "add", ok |-> FALSE, action |-> ""]
                /\ UNCHANGED favorites
        /\ UNCHANGED <<now, notFav>>

RemoveJobFromFavorites ==
    \E emp_code \in FavCallers, jobData \in FavInputs :
        /\ IF emp_code \in FavUsers
           THEN /\ favorites' = [favorites EXCEPT ![emp_code] =
                        removeJobFromFavorites(favorites[emp_code],
                                               jobData.job_no)]
                /\ lastFav' = [op |-> "remove", ok |-> TRUE, action |-> ""]
           ELSE /\ lastFav' = [op |-> "remove", ok |-> FALSE, action |-> ""]
                /\ UNCHANGED favorites
        /\ UNCHANGED <<now, notFav>>

ToggleJobFavorite ==
    \E emp_code \in FavCallers, jobData \in FavInputs :
        /\ IF emp_code \in FavUsers
           THEN /\ favorites' = [favorites EXCEPT ![emp_code] =
                        toggleJobFavorite(favorites[emp_code], jobData, now)]
                /\ lastFav' = [op |-> "toggle", ok |-> TRUE,
                               action |-> IF findIndex(favorites[emp_code],
                                                       jobData.job_no) # 0
                                          THEN "removed" ELSE "added"]
           ELSE /\ lastFav' = [op |-> "toggle", ok |-> FALSE, action |-> ""]
                /\ UNCHANGED favorites
        /\ UNCHANGED <<now, notFav>>

NextFav ==
    \/ AddJobToFavorites
    \/ RemoveJobFromFavorites
    \/ ToggleJobFavorite
    \/ Advance

SpecFav == Init /\ [][NextFav]_vars

(***************************************************************************)
(* ensureTable of the two stores.  A table is its id type, its columns,    *)
(* its indexes and its rows (a legacy row is known by its content, the id  *)
(* being regenerated by the migration); a call is the sequence of its      *)
(* statements, each committed on its own, run until one fails.             *)
(***************************************************************************)
Stmt(op, col) == [op |-> op, col |-> col]

\* the columns of CREATE TABLE in PgStore.ensureTable
EntryColumns ==
    {"id", "job_no", "job_name", "employee_code", "employee_name",
     "account_no", "account_name", "start_time", "end_time", "total_seconds",
     "comment", "status", "spire_status", "start_location", "end_location",
     "created_at", "updated_at"}

\* the columns PgStore.ensureTable adds when missing, in the order of the code
EvolvedColumns ==
    <<"spire_status", "employee_code", "employee_name", "start_location",
      "end_location", "total_seconds", "comment", "account_no", "account_name">>

\* CREATE INDEX IF NOT EXISTS idx_<table>_<column>, the four of one query
EntryIndexes == {"job_no", "status", "start_time", "spire_status"}

\* the columns of CREATE TABLE in UserStore.ensureTable
UserColumns ==
    {"id", "emp_code", "emp_name", "password", "verified", "favorites",
     "created", "updated"}
UserEvolvedColumns == <<"emp_name", "favorites">>
UserIndexes == {"emp_code", "verified"}

\* the columns the restore of UserStore selects from the backup
UserRestoreColumns ==
    {"emp_code", "emp_name", "password", "verified", "favorites", "created",
     "updated"}

\* the ADD COLUMN steps for the columns of the list the table lacks
RECURSIVE AddSteps(_, _)
AddSteps(list, columns) ==
    IF list = <<>> THEN <<>>
    ELSE (IF Head(list) \in columns THEN <<>>
          ELSE <<Stmt("addColumn", Head(list))>>)
         \o AddSteps(Tail(list), columns)

MigrationSteps ==
    <<Stmt("backup", ""), Stmt("drop", ""), Stmt("create", ""),
      Stmt("restore", ""), Stmt("dropBackup", "")>>

\* the statements of PgStore.ensureTable on the table t that change or may
\* fail, in order
EntrySteps(t) ==
    <<Stmt("connect", ""), Stmt("extension", "")>>
    \o (IF ~t.exists THEN <<Stmt("createTable", "")>>
        ELSE (IF "id" \in t.columns /\ t.idType # "uuid"
              THEN MigrationSteps ELSE <<>>)
             \o AddSteps(EvolvedColumns, t.columns))
    \o <<Stmt("indexes", "")>>
    \o (IF ~t.exists \/ "employee_code" \in t.columns
        THEN <<Stmt("employeeIndex", "")>> ELSE <<>>)

\* the statements of UserStore.ensureTable on the table t
UserSteps(t) ==
    <<Stmt("connect", ""), Stmt("extension", ""), Stmt("createTable", "")>>
    \o (IF t.exists /\ "id" \in t.columns /\ t.idType # "uuid"
        THEN MigrationSteps ELSE <<>>)
    \o (IF t.exists /\ ~("id" \in t.columns /\ t.idType # "uuid")
        THEN AddSteps(UserEvolvedColumns, t.columns) ELSE <<>>)
    \o <<Stmt("indexes", "")>>

\* mutant: CREATE INDEX without IF NOT EXISTS
CreateIndexFailsIfPresent(t, cols) ==
    \/ \E c \in cols : c \notin t.columns
    \/ \E c \in cols : c \in t.indexes

\* CREATE INDEX IF NOT EXISTS on the columns fails when one of them is
\* missing
CreateIndexFails(t, cols) == \E c \in cols : c \notin t.columns

\* mutant: the backup is made WITH NO DATA
BackupOfNoData(t) == [exists |-> TRUE, columns |-> t.columns, data |-> {}]

\* CREATE TABLE <table>_backup AS SELECT <columns> FROM <table>
BackupOf(t) == [exists |-> TRUE, columns |-> t.columns, data |-> t.data]

\* the statement fails on the table as it is: a relation that is there
\* already or not there, a column that is missing
StepFails(store, step, t) ==
    CASE step.op = "backup" -> t.backup.exists
      [] step.op = "restore" ->
            store = "users" /\ ~(UserRestoreColumns \subseteq t.backup.columns)
      [] step.op = "indexes" ->
            CreateIndexFails(t, IF store = "entries" THEN EntryIndexes
                                ELSE UserIndexes)
      [] step.op = "employeeIndex" -> CreateIndexFails(t, {"employee_code"})
      [] OTHER -> FALSE

\* the table after the statement
Exec(store, step, t) ==
    CASE step.op = "createTable" ->
            IF t.exists THEN t
            ELSE [t EXCEPT !.exists = TRUE, !.idType = "uuid",
                           !.columns = IF store = "entries" THEN EntryColumns
                                       ELSE UserColumns,
                           !.indexes = {}, !.data = {}]
      [] step.op = "backup" -> [t EXCEPT !.backup = BackupOf(t)]
      [] step.op = "drop" ->
            [t EXCEPT !.exists = FALSE, !.idType = "", !.columns = {},
                      !.indexes = {}, !.data = {}]
      [] step.op = "create" ->
            [t EXCEPT !.exists = TRUE, !.idType = "uuid",
                      !.columns = IF store = "entries" THEN t.backup.columns
                                  ELSE UserColumns,
                      !.indexes = {}, !.data = {}]
      [] step.op = "restore" -> [t EXCEPT !.data = t.data \cup t.backup.data]
      [] step.op = "dropBackup" -> [t EXCEPT !.backup = NoBackup]
      [] step.op = "addColumn" ->
            [t EXCEPT !.columns = t.columns \cup {step.col}]
      [] step.op = "indexes" ->
            [t EXCEPT !.indexes = t.indexes \cup
                        (IF store = "entries" THEN EntryIndexes
                         ELSE UserIndexes)]
      [] step.op = "employeeIndex" ->
            [t EXCEPT !.indexes = t.indexes \cup {"employee_code"}]
      [] OTHER -> t

\* the steps run in order until one fails: failAt is the statement the
\* database refuses for a reason of its own (connection lost, disk full)
RECURSIVE Run(_, _, _, _, _)
Run(store, steps, t, failAt, changes) ==
    IF steps = <<>>
    THEN [table |-> t, success |-> TRUE, error |-> NoStep, changes |-> changes]
    ELSE IF Head(steps) = failAt \/ StepFails(store, Head(steps), t)
    THEN [table |-> t, success |-> FALSE, error |-> Head(steps),
          changes |-> changes]
    ELSE LET new == Exec(store, Head(steps), t) IN
         Run(store, Tail(steps), new, failAt,
             IF new # t THEN changes \cup {Head(steps)} ELSE changes)

\* PgStore.ensureTable: the table afterwards, the result returned and the
\* statements that changed the table
ensureTable(t, failAt) == Run("entries", EntrySteps(t), t, failAt, {})

\* UserStore.ensureTable
ensureUsersTable(t, failAt) == Run("users", UserSteps(t), t, failAt, {})

\* the statements a call may be refused at
FailPoints ==
    {NoStep, Stmt("connect", ""), Stmt("createTable", ""), Stmt("backup", ""),
     Stmt("drop", ""), Stmt("create", ""), Stmt("restore", ""),
     Stmt("dropBackup", ""), Stmt("addColumn", "spire_status"),
     Stmt("addColumn", "favorites"), Stmt("indexes", "")}

\* the legacy rows a table holds
LegacyRows == {"r1", "r2"}

\* the time-entry tables a deployment starts on: none, the target schema, a
\* legacy table with integer ids complete or lacking evolved columns, and a
\* UUID table lacking evolved columns
EntryTables ==
    {NoTable,
     [exists |-> TRUE, idType |-> "uuid", columns |-> EntryColumns,
      indexes |-> EntryIndexes \cup {"employee_code"}, data |-> LegacyRows,
      backup |-> NoBackup],
     [exists |-> TRUE, idType |-> "integer", columns |-> EntryColumns,
      indexes |-> {}, data |-> LegacyRows, backup |-> NoBackup],
     [exists |-> TRUE, idType |-> "integer",
      columns |-> EntryColumns \ {"spire_status", "employee_code", "comment"},
      indexes |-> {"job_no"}, data |-> LegacyRows, backup |-> NoBackup],
     [exists |-> TRUE, idType |-> "uuid",
      columns |-> EntryColumns \ {"employee_code", "account_name"},
      indexes |-> {}, data |-> {"r1"}, backup |-> NoBackup]}

UserTables ==
    {NoTable,
     [exists |-> TRUE, idType |-> "uuid", columns |-> UserColumns,
      indexes |-> UserIndexes, data |-> LegacyRows, backup |-> NoBackup],
     [exists |-> TRUE, idType |-> "integer", columns |-> UserColumns,
      indexes |-> {}, data |-> LegacyRows, backup |-> NoBackup],
     [exists |-> TRUE, idType |-> "integer",
      columns |-> UserColumns \ {"favorites"},
      indexes |-> {}, data |-> {"r1"}, backup |-> NoBackup]}

InitSchema ==
    /\ InitCore
    /\ schema \in [entries : EntryTables, users : UserTables]
    /\ lastEnsure = [store |-> "", success |-> TRUE, failAt |-> NoStep,
                     changes |-> {}]
    /\ fetch = NoFetch
    /\ popup = NoPopup

\* what the ensureTable calls leave alone
notSchema == <<rows, nextId, now, lastOp, sess, clientVars, authVars, favVars,
              fetchVars, pendingVars, popupVars, restVars>>

EnsureEntries ==
    \E failAt \in FailPoints :
        LET res == ensureTable(schema.entries, failAt) IN
        /\ schema' = [schema EXCEPT !.entries = res.table]
        /\ lastEnsure' = [store |-> "entries", success |-> res.success,
                          failAt |-> res.error, changes |-> res.changes]
        /\ UNCHANGED notSchema

EnsureUsers ==
    \E failAt \in FailPoints :
        LET res == ensureUsersTable(schema.users, failAt) IN
        /\ schema' = [schema EXCEPT !.users = res.table]
        /\ lastEnsure' = [store |-> "users", success |-> res.success,
                          failAt |-> res.error, changes |-> res.changes]
        /\ UNCHANGED notSchema

NextSchema ==
    \/ EnsureEntries
    \/ EnsureUsers

SpecSchema == InitSchema /\ [][NextSchema]_vars

(***************************************************************************)
(* fetchJobs: the paginated download of the job list.  The remote dataset  *)
(* holds `dataset` records numbered from 0; a page is the pair of its      *)
(* offset and the number of records it carries, so allJobs is the list of  *)
(* the pages pushed so far.                                                *)
(***************************************************************************)
MaxRecords == 510
MaxFailures == 1

PageLimit == 50
maxPages == 10

Min(a, b) == IF a <= b THEN a ELSE b

DatasetSizes == 0..MaxRecords

\* the count the first page reports: the size of the dataset, none at all
\* (jobsData.count || 0), or a stale one
Counts(n) == {n, 0, Max(n - 1, 0)}

\* the records the server returns for limit=PageLimit&offset=offset
ServerPage(n, offset) ==
    [offset |-> offset, n |-> Min(PageLimit, Max(n - offset, 0))]

RECURSIVE JobsLength(_)
JobsLength(pages) ==
    IF pages = <<>> THEN 0 ELSE Head(pages).n + JobsLength(Tail(pages))

\* allJobs.splice(totalCount): the first totalCount records are kept
RECURSIVE SpliceJobs(_, _)
SpliceJobs(pages, keep) ==
    IF pages = <<>> \/ keep <= 0 THEN <<>>
    ELSE IF Head(pages).n <= keep
         THEN <<Head(pages)>> \o SpliceJobs(Tail(pages), keep - Head(pages).n)
         ELSE <<[Head(pages) EXCEPT !.n = keep]>>

CompleteNever(length, totalCount) == FALSE

\* allJobs.length >= totalCount; a totalCount still null compares as 0, and
\* the later test `totalCount && ...` takes null and 0 alike, so the local
\* starts at 0 here
Complete(length, totalCount) ==
    length >= totalCount

\* one pass of the while loop, the request of the page answered by `outcome`
LoopPass(f, outcome) ==
    LET pageCount == f.pageCount + 1
        asked == [f EXCEPT !.pageCount = pageCount,
                           !.requests = Append(@, f.offset)]
        jobs == ServerPage(f.dataset, f.offset)
        totalCount == IF pageCount = 1 THEN f.count ELSE f.totalCount
        allJobs == Append(f.allJobs, jobs)
    IN  CASE outcome = "ok" /\ jobs.n = 0 ->
                [asked EXCEPT !.totalCount = totalCount, !.hasMore = FALSE]
          [] outcome = "ok" /\ jobs.n # 0 ->
                [asked EXCEPT !.totalCount = totalCount,
                              !.allJobs = allJobs,
                              !.offset = @ + PageLimit,
                              !.hasMore =
                                  /\ ~Complete(JobsLength(allJobs), totalCount)
                                  /\ ~(jobs.n < PageLimit)]
          [] outcome = "cors" ->
                [asked EXCEPT !.hasMore = FALSE,
                              !.failures = @ + 1]
          [] OTHER ->
                [asked EXCEPT !.offset = @ + PageLimit,
                              !.failures = @ + 1]

\* what follows the loop: the trim and the return
Returned(f) ==
    [f EXCEPT !.pc = "returned",
              !.allJobs = IF f.totalCount # 0
                             /\ JobsLength(f.allJobs) > f.totalCount
                          THEN SpliceJobs(f.allJobs, f.totalCount)
                          ELSE f.allJobs]

FetchInits ==
    UNION {{[NoFetch EXCEPT !.pc = "loop", !.dataset = n, !.count = c,
                            !.hasMore = TRUE] : c \in Counts(n)} :
           n \in DatasetSizes}

InitFetch ==
    /\ InitCore
    /\ schema = [entries |-> NoTable, users |-> NoTable]
    /\ lastEnsure = [store |-> "", success |-> TRUE, failAt |-> NoStep,
                     changes |-> {}]
    /\ fetch \in FetchInits
    /\ popup = NoPopup

notFetch == <<rows, nextId, now, lastOp, sess, clientVars, authVars, favVars,
             schemaVars, pendingVars, popupVars, restVars>>

FetchPage ==
    /\ fetch.pc = "loop"
    /\ fetch.hasMore /\ fetch.pageCount < maxPages
    /\ \E outcome \in {"ok", "error", "cors"} :
        /\ outcome # "ok" => fetch.failures < MaxFailures
        /\ fetch' = LoopPass(fetch, outcome)
    /\ UNCHANGED notFetch

FetchReturn ==
    /\ fetch.pc = "loop"
    /\ ~(fetch.hasMore /\ fetch.pageCount < maxPages)
    /\ fetch' = Returned(fetch)
    /\ UNCHANGED notFetch

NextFetch ==
    \/ FetchPage
    \/ FetchReturn

SpecFetch == InitFetch /\ [][NextFetch]_vars

(***************************************************************************)
(* The time-entry routes, called with the token of one employee and any    *)
(* request body.                                                           *)
(***************************************************************************)
\* req.user.empcode of the token, and another employee of the company
TokenEmployee == "E1"
OtherEmployee == "E2"

\* { ...req.body, employee_code: employeeCode, ... }
EntryData(body, employeeCode) ==
    [k \in DOMAIN body \cup {"employee_code"} |->
        IF k = "employee_code" THEN employeeCode ELSE body[k]]

\* the bodies a client can send to POST /api/time-entries
PostBodies(t) ==
    EntryInputs(t) \cup
    {[job_no |-> "J1", employee_code |-> OtherEmployee],
     [job_no |-> "J1"]}

\* the bodies a client can send to PUT /api/time-entries/:id
PutBodies(t) ==
    UpdateInputs(t) \cup {[employee_code |-> OtherEmployee]}

\* POST /api/time-entries
PostEntry ==
    \E body \in PostBodies(now) :
        LET res == createEntry(rows, EntryData(body, TokenEmployee), nextId,
                               now)
        IN  /\ res.ok => nextId <= MaxRows
            /\ rows' = res.table
            /\ nextId' = IF res.ok THEN nextId + 1 ELSE nextId
            /\ lastOp' = [op |-> "post", ok |-> res.ok, id |-> res.id,
                          employeeCode |-> TokenEmployee]
            /\ UNCHANGED <<now, others>>

\* PUT /api/time-entries/:id
PutEntry ==
    \E id \in Ids, body \in PutBodies(now) :
        LET res == updateEntry(rows, id, body, TokenEmployee, now) IN
        /\ rows' = res.table
        /\ lastOp' = [op |-> "put", ok |-> res.ok, id |-> id,
                      employeeCode |-> TokenEmployee]
        /\ UNCHANGED <<nextId, now, others>>

\* PUT /api/time-entries/:id/stop
PutStop ==
    \E id \in Ids :
        LET res == stopEntry(rows, id, TokenEmployee, now) IN
        /\ rows' = res.table
        /\ lastOp' = [op |-> "putStop", ok |-> res.ok, id |-> id,
                      employeeCode |-> TokenEmployee]
        /\ UNCHANGED <<nextId, now, others>>

\* DELETE /api/time-entries/:id
DeleteRoute ==
    \E id \in Ids :
        LET res == deleteEntry(rows, id, TokenEmployee) IN
        /\ rows' = res.table
        /\ lastOp' = [op |-> "delete", ok |-> res.ok, id |-> id,
                      employeeCode |-> TokenEmployee]
        /\ UNCHANGED <<nextId, now, others>>

NextRoutes ==
    \/ PostEntry
    \/ PutEntry
    \/ PutStop
    \/ DeleteRoute
    \/ Advance

SpecRoutes == Init /\ [][NextRoutes]_vars

(***************************************************************************)
(* The two pagination loops of the backend fetcher, fetchJobs and          *)
(* fetchEmployees, against a server that answers a page request with any   *)
(* number of records up to the limit, or not at all.                       *)
(***************************************************************************)
MaxCount == 1000

NoPages == 0

\* limit, maxPages and the catch block of the two loops
Loops ==
    [jobs |-> [limit |-> 50, maxPages |-> 10, skipFailed |-> TRUE],
     employees |-> [limit |-> 100, maxPages |-> NoPages, skipFailed |-> FALSE]]

\* while (hasMore && pageCount < maxPages) / while (hasMore)
LoopGoesOn(f) ==
    /\ f.hasMore
    /\ Loops[f.loop].maxPages # NoPages => f.pageCount < Loops[f.loop].maxPages

\* mutant: the catch block of fetchEmployees skips the page as fetchJobs does
FailedPageSkipped(f) ==
    [f EXCEPT !.offset = @ + Loops[f.loop].limit, !.failures = @ + 1]

\* the catch block for an error that is not CORS-class: fetchJobs asks for
\* the next offset, fetchEmployees stops
FailedPage(f) ==
    IF Loops[f.loop].skipFailed
    THEN [f EXCEPT !.offset = @ + Loops[f.loop].limit, !.failures = @ + 1]
    ELSE [f EXCEPT !.hasMore = FALSE, !.failures = @ + 1]

\* one pass of the loop: the page answered with n records and the count
\* f.count, or failed
PagePass(f, outcome, n) ==
    LET lim == Loops[f.loop].limit
        pageCount == f.pageCount + 1
        asked == [f EXCEPT !.pageCount = pageCount,
                           !.requests = Append(@, f.offset)]
        totalCount == IF pageCount = 1 THEN f.count ELSE f.totalCount
        all == Append(f.allJobs, [offset |-> f.offset, n |-> n])
    IN  CASE outcome = "ok" /\ n = 0 ->
                [asked EXCEPT !.totalCount = totalCount, !.hasMore = FALSE]
          [] outcome = "ok" /\ n # 0 ->
                [asked EXCEPT !.totalCount = totalCount,
                              !.allJobs = all,
                              !.offset = @ + lim,
                              !.hasMore = /\ ~(JobsLength(all) >= totalCount)
                                          /\ ~(n < lim)]
          [] outcome = "cors" ->
                [asked EXCEPT !.hasMore = FALSE, !.failures = @ + 1]
          [] OTHER -> FailedPage(asked)

\* the sizes of the page a request is answered with
PageSizes(loop) == {0, 1, Loops[loop].limit}

PagesInits ==
    {[pc |-> "loop", loop |-> l, count |-> c, allJobs |-> <<>>,
      totalCount |-> 0, offset |-> 0, hasMore |-> TRUE, pageCount |-> 0,
      requests |-> <<>>, failures |-> 0] :
        l \in DOMAIN Loops, c \in {0, 150, MaxCount}}

InitPages ==
    /\ InitCore
    /\ schema = [entries |-> NoTable, users |-> NoTable]
    /\ lastEnsure = [store |-> "", success |-> TRUE, failAt |-> NoStep,
                     changes |-> {}]
    /\ popup = NoPopup
    /\ fetch \in PagesInits

AnyPage ==
    /\ fetch.pc = "loop"
    /\ LoopGoesOn(fetch)
    /\ \E outcome \in {"ok", "error", "cors"}, n \in PageSizes(fetch.loop) :
        fetch' = PagePass(fetch, outcome, n)
    /\ UNCHANGED notFetch

PagesReturn ==
    /\ fetch.pc = "loop"
    /\ ~LoopGoesOn(fetch)
    /\ fetch' = Returned(fetch)
    /\ UNCHANGED notFetch

NextPages ==
    \/ AnyPage
    \/ PagesReturn

\* the loop runs on: each await settles
SpecPages == InitPages /\ [][NextPages]_vars /\ WF_vars(NextPages)

(***************************************************************************)
(* makeRequest: fetch raced against a timeout, retried with a growing      *)
(* delay.  An error message is the sequence of its words.                  *)
(***************************************************************************)
\* API_CONFIG of the two copies of the fetcher
API_CONFIG ==
    [backend |-> [timeout |-> 45000, retries |-> 2, retryDelay |-> 2000],
     frontend |-> [timeout |-> 30000, retries |-> 3, retryDelay |-> 1000]]

\* message.includes(needle)
Includes(message, needle) ==
    \E i \in 1..(Len(message) - Len(needle) + 1) :
        SubSeq(message, i, i + Len(needle) - 1) = needle

RequestTimeout == <<"Request", "timeout">>

\* the messages fetch rejects with: no connection (Chrome, Node, Firefox,
\* Safari), a blocked cross-origin request, an aborted request
Rejections ==
    {<<"Failed", "to", "fetch">>,
     <<"fetch", "failed">>,
     <<"NetworkError", "when", "attempting", "to", "fetch", "resource.">>,
     <<"Load", "failed">>,
     <<"CORS", "request", "did", "not", "succeed">>,
     <<"The", "operation", "was", "aborted.">>}

\* `HTTP ${response.status}: ${response.statusText}`
HttpErrors ==
    {<<"HTTP", "404:", "Not", "Found">>,
     <<"HTTP", "500:", "Internal", "Server", "Error">>,
     <<"HTTP", "503:", "Service", "Unavailable">>}

\* what one attempt throws
AttemptErrors == {RequestTimeout} \cup Rejections \cup HttpErrors

CorsError ==
    <<"CORS", "Error:", "API", "server", "does", "not", "allow",
      "cross-origin", "requests.">>

\* error.message.includes('CORS') || error.message.includes('Failed to fetch')
IsCorsError(message) ==
    \/ Includes(message, <<"CORS">>)
    \/ Includes(message, <<"Failed", "to", "fetch">>)

\* mutant: one retry more than API_CONFIG.retries
MayRetryOnceMore(cfg, retryCount, message) ==
    /\ retryCount <= cfg.retries
    /\ message = RequestTimeout \/ Includes(message, <<"fetch">>)

\* retryCount < API_CONFIG.retries && (error.message === 'Request timeout'
\*     || error.message.includes('fetch'))
MayRetry(cfg, retryCount, message) ==
    /\ retryCount < cfg.retries
    /\ message = RequestTimeout \/ Includes(message, <<"fetch">>)

\* the catch block of makeRequest for the error of an attempt
Caught(r, message) ==
    LET cfg == API_CONFIG[r.copy]
        failed == [r EXCEPT !.errors = Append(@, message)]
    IN  IF IsCorsError(message)
        THEN [failed EXCEPT !.status = "thrown", !.thrown = CorsError]
        ELSE IF MayRetry(cfg, r.retryCount, message)
        THEN [failed EXCEPT !.status = "waiting",
                            !.waits = Append(@, cfg.retryDelay
                                                    * (r.retryCount + 1))]
        ELSE [failed EXCEPT !.status = "thrown", !.thrown = message]

notReq == <<rows, nextId, now, lastOp, sess, clientVars, authVars, favVars,
           schemaVars, fetchVars, pendingVars, popupVars, poolVars,
           favSessVars, gateVars>>

\* a caller calls makeRequest(url, options)
MakeRequest ==
    \E copy \in DOMAIN API_CONFIG :
        /\ req.status = "idle"
        /\ req' = [NoCall EXCEPT !.status = "fetching", !.copy = copy]
        /\ UNCHANGED notReq

\* the race of fetch and the timeout settles: a 2xx response is returned,
\* anything else goes through the catch block
Attempt ==
    /\ req.status = "fetching"
    /\ \/ req' = [req EXCEPT !.status = "returned", !.attempts = @ + 1]
       \/ \E message \in AttemptErrors :
            req' = Caught([req EXCEPT !.attempts = @ + 1], message)
    /\ UNCHANGED notReq

\* the delay is over: makeRequest(url, options, retryCount + 1)
RetryRequest ==
    /\ req.status = "waiting"
    /\ req' = [req EXCEPT !.status = "fetching", !.retryCount = @ + 1]
    /\ UNCHANGED notReq

NextRequest ==
    \/ MakeRequest
    \/ Attempt
    \/ RetryRequest

SpecRequest == Init /\ [][NextRequest]_vars

(***************************************************************************)
(* The end-timer confirmation: handleStopTimer shows the total as          *)
(* HH:MM:SS, adjustTime moves it by ten minutes.  A part of the string is  *)
(* the sequence of its decimal digits; endTotalTime is the triple of its   *)
(* parts, `shown` the seconds handleStopTimer was given and `adjusted`     *)
(* whether adjustTime has set the string since.                            *)
(***************************************************************************)
MaxHours == 25

\* n.toString()
RECURSIVE toString(_)
toString(n) ==
    IF n < 10 THEN <<n>> ELSE Append(toString(n \div 10), n % 10)

\* str.padStart(2, '0')
padStart(str) == IF Len(str) < 2 THEN <<0>> \o str ELSE str

\* Number(str) of a string of digits
RECURSIVE Number(_)
Number(str) ==
    IF str = <<>> THEN 0
    ELSE Number(SubSeq(str, 1, Len(str) - 1)) * 10 + str[Len(str)]

\* `${hours}:${minutes}:${seconds}`, every part padded
TimeString(hours, minutes, seconds) ==
    <<padStart(toString(hours)), padStart(toString(minutes)),
      padStart(toString(seconds))>>

\* mutant: the upper clamp is missing
ClampMinutesLowOnly(totalMinutes) == Max(totalMinutes, 0)

\* if (totalMinutes < 0) totalMinutes = 0; if (totalMinutes > 1439) ... = 1439
ClampMinutes(totalMinutes) ==
    IF totalMinutes < 0 THEN 0
    ELSE IF totalMinutes > 1439 THEN 1439
    ELSE totalMinutes

\* handleStopTimer: the string shown for totalSeconds
handleStopTimer(totalSeconds) ==
    TimeString(totalSeconds \div 3600, (totalSeconds % 3600) \div 60,
               totalSeconds % 60)

\* adjustTime(minutes) on the string shown
adjustTime(endTotalTime, minutes) ==
    LET hours == Number(endTotalTime[1])
        mins == Number(endTotalTime[2])
        seconds == Number(endTotalTime[3])
        totalMinutes == ClampMinutes(hours * 60 + mins + minutes)
    IN  TimeString(totalMinutes \div 60, totalMinutes % 60, seconds)

\* the totals a timer can show when End is pressed
ShownTotals ==
    {h * 3600 + m * 60 + sec :
        h \in 0..MaxHours, m \in {0, 5, 55}, sec \in {0, 7, 59}}

InitPopup ==
    /\ InitCore
    /\ schema = [entries |-> NoTable, users |-> NoTable]
    /\ lastEnsure = [store |-> "", success |-> TRUE, failAt |-> NoStep,
                     changes |-> {}]
    /\ fetch = NoFetch
    /\ \E totalSeconds \in ShownTotals :
        popup = [endTotalTime |-> handleStopTimer(totalSeconds),
                 isAdjusting |-> FALSE, shown |-> totalSeconds,
                 adjusted |-> FALSE]

notPopup == <<rows, nextId, now, lastOp, sess, clientVars, authVars, favVars,
             schemaVars, fetchVars, pendingVars, restVars>>

\* a press of the minus or the plus button: skipped while isAdjusting
AdjustTime ==
    \E minutes \in {-10, 10} :
        /\ ~popup.isAdjusting
        /\ popup' = [popup EXCEPT
                        !.endTotalTime = adjustTime(@, minutes),
                        !.isAdjusting = TRUE,
                        !.adjusted = TRUE]
        /\ UNCHANGED notPopup

\* setTimeout(() => setIsAdjusting(false), 50)
AdjustDone ==
    /\ popup.isAdjusting
    /\ popup' = [popup EXCEPT !.isAdjusting = FALSE]
    /\ UNCHANGED notPopup

NextPopup ==
    \/ AdjustTime
    \/ AdjustDone

SpecPopup == InitPopup /\ [][NextPopup]_vars

(***************************************************************************)
(* The TimeTracking handlers with their awaits: a handler reads            *)
(* activeTimers and pausedTimers of the render it was created in, waits    *)
(* for the GPS fix or for the server, and sets the state when the reply    *)
(* arrives; other handlers run in between.                                 *)
(***************************************************************************)
MaxPending == 2

NoRequest == [none |-> TRUE]

\* a handler call in flight
Call(op, phase, id, job, updateData, closure, paused, ok) ==
    [op |-> op, phase |-> phase, id |-> id, job |-> job,
     updateData |-> updateData, closure |-> closure, paused |-> paused,
     ok |-> ok]

\* loadingTimers: the timers with an updateTimer call in flight
LoadingTimers ==
    {p.id : p \in {q \in pending : q.op \in {"pause", "resume", "end"}}}

\* the durations entered in the add-time popup, in seconds
AddTimeInputs == {3600}

notPending == <<now, sess, lastChange, activeSecs, authVars, favVars,
               schemaVars, fetchVars, popupVars, restVars>>

\* handleStartTimer up to its first await: refused while a timer of the
\* render is running, else the handler waits for the GPS fix
StartClick ==
    \E job \in ClientJobs :
        /\ Cardinality(pending) < MaxPending
        /\ IF Running(activeTimers, pausedTimers) # {}
           THEN /\ lastOp' = ClientOp("start", FALSE, 0)
                /\ UNCHANGED pending
           ELSE /\ lastOp' = ClientOp("startClick", TRUE, 0)
                /\ pending' = pending \cup
                    {Call("start", "gps", 0, job, NoRequest, activeTimers,
                          pausedTimers, FALSE)}
        /\ UNCHANGED <<rows, nextId, activeTimers, pausedTimers, notPending>>

\* captureGPSLocation settles: the position, or the error it throws
GpsSettle ==
    \E p \in pending, fix \in BOOLEAN :
        /\ p.phase = "gps"
        /\ pending' = (pending \ {p}) \cup
            {[p EXCEPT !.phase = IF fix THEN "fix" ELSE "nofix"]}
        /\ lastOp' = ClientOp("gps", fix, p.id)
        /\ UNCHANGED <<rows, nextId, activeTimers, pausedTimers, notPending>>

\* mutant: the handler goes on without a location
GpsFailedIgnored(p) == FALSE

\* catch (locationError) { showError(...); return; }
GpsFailed(p) ==
    p.phase = "nofix"

\* handleStartTimer after captureGPSLocation: without a fix, or with a paused
\* timer of the job in the render the handler belongs to, it gives up; else
\* POST /api/time-entries
StartPost ==
    \E p \in pending :
        LET entry == [job_no |-> p.job, employee_code |-> Employee,
                      status |-> "active"]
            res == createEntry(rows, entry, nextId, now)
            existingPausedTimer ==
                \E i \in DOMAIN p.closure :
                    p.closure[i].job_no = p.job /\ i \in p.paused
        IN  /\ p.op = "start" /\ p.phase \in {"fix", "nofix"}
            /\ IF GpsFailed(p) \/ existingPausedTimer
               THEN /\ pending' = pending \ {p}
                    /\ lastOp' = ClientOp("start", FALSE, 0)
                    /\ UNCHANGED <<rows, nextId>>
               ELSE /\ res.ok => nextId <= MaxRows
                    /\ rows' = res.table
                    /\ nextId' = IF res.ok THEN nextId + 1 ELSE nextId
                    /\ pending' = (pending \ {p}) \cup
                        {[p EXCEPT !.phase = "reply", !.id = res.id,
                                   !.ok = res.ok]}
                    /\ lastOp' = ClientOp("create", res.ok, res.id)
            /\ UNCHANGED <<activeTimers, pausedTimers, notPending>>

\* handleStartTimer after createEntry answered:
\* setActiveTimers([...activeTimers, newTimer]) with the array of its render
StartReply ==
    \E p \in pending :
        /\ p.op = "start" /\ p.phase = "reply"
        /\ pending' = pending \ {p}
        /\ lastOp' = ClientOp("start", p.ok, p.id)
        /\ activeTimers' =
            IF p.ok
            THEN Insert(p.closure,
                        [id |-> p.id, job_no |-> p.job, status |-> "active",
                         total_seconds |-> 0, startTime |-> now,
                         elapsedTime |-> 0])
            ELSE activeTimers
        /\ UNCHANGED <<rows, nextId, pausedTimers, notPending>>

\* the body updateTimer builds before its await
UpdateData(operation, timer, paused) ==
    CASE operation = "pause" -> PauseRequest(ElapsedSeconds(timer), now)
      [] operation = "resume" -> ResumeRequest(now)
      [] OTHER -> EndRequest(IF timer.id \in paused THEN timer.total_seconds
                             ELSE ElapsedSeconds(timer), now)

\* handlePauseTimer / handleConfirmEndTimer and updateTimer up to its await:
\* a resume is refused while a timer of the render is running
UpdateClick ==
    \E id \in Displayed(activeTimers) \ LoadingTimers, end \in BOOLEAN :
        LET operation == IF end THEN "end"
                         ELSE IF id \in pausedTimers THEN "resume"
                         ELSE "pause"
        IN  /\ Cardinality(pending) < MaxPending
            /\ IF operation = "resume"
                  /\ Running(activeTimers, pausedTimers) # {}
               THEN /\ lastOp' = ClientOp("resume", FALSE, id)
                    /\ UNCHANGED pending
               ELSE /\ lastOp' = ClientOp("updateClick", TRUE, id)
                    /\ pending' = pending \cup
                        {Call(operation, IF end THEN "gps" ELSE "sent", id,
                              activeTimers[id].job_no,
                              UpdateData(operation, activeTimers[id],
                                         pausedTimers),
                              <<>>, {}, FALSE)}
            /\ UNCHANGED <<rows, nextId, activeTimers, pausedTimers,
                           notPending>>

\* handleConfirmEndTimer after captureGPSLocation: without a fix it gives up,
\* else updateTimer(id, 'end', ...)
EndGps ==
    \E p \in pending :
        /\ p.op = "end" /\ p.phase \in {"fix", "nofix"}
        /\ IF GpsFailed(p)
           THEN /\ pending' = pending \ {p}
                /\ lastOp' = ClientOp("end", FALSE, p.id)
           ELSE /\ pending' = (pending \ {p}) \cup {[p EXCEPT !.phase = "sent"]}
                /\ lastOp' = ClientOp("endSend", TRUE, p.id)
        /\ UNCHANGED <<rows, nextId, activeTimers, pausedTimers, notPending>>

\* handleConfirmAddTime up to await captureGPSLocation
AddTimeClick ==
    \E job \in ClientJobs, total \in AddTimeInputs :
        /\ Cardinality(pending) < MaxPending
        /\ lastOp' = ClientOp("addClick", TRUE, 0)
        /\ pending' = pending \cup
            {Call("add", "gps", 0, job,
                  [total_seconds |-> total, status |-> "completed"],
                  <<>>, {}, FALSE)}
        /\ UNCHANGED <<rows, nextId, activeTimers, pausedTimers, notPending>>

\* handleConfirmAddTime after captureGPSLocation: without a fix it gives up,
\* else POST /api/time-entries of a completed entry; the reply changes no
\* timer
AddTimePost ==
    \E p \in pending :
        LET entry == [job_no |-> p.job, employee_code |-> Employee,
                      total_seconds |-> p.updateData.total_seconds,
                      status |-> "completed", end_time |-> now]
            res == createEntry(rows, entry, nextId, now)
        IN  /\ p.op = "add" /\ p.phase \in {"fix", "nofix"}
            /\ pending' = pending \ {p}
            /\ IF GpsFailed(p)
               THEN /\ lastOp' = ClientOp("add", FALSE, 0)
                    /\ UNCHANGED <<rows, nextId>>
               ELSE /\ res.ok => nextId <= MaxRows
                    /\ rows' = res.table
                    /\ nextId' = IF res.ok THEN nextId + 1 ELSE nextId
                    /\ lastOp' = ClientOp("add", res.ok, res.id)
            /\ UNCHANGED <<activeTimers, pausedTimers, notPending>>

\* PUT /api/time-entries/:id of an updateTimer call reaches the store
UpdateServe ==
    \E p \in pending :
        LET res == updateEntry(rows, p.id, p.updateData, Employee, now) IN
        /\ p.op \in {"pause", "resume", "end"} /\ p.phase = "sent"
        /\ rows' = res.table
        /\ pending' = (pending \ {p}) \cup
            {[p EXCEPT !.phase = "reply", !.ok = res.ok]}
        /\ lastOp' = ClientOp("update", res.ok, p.id)
        /\ UNCHANGED <<nextId, activeTimers, pausedTimers, notPending>>

\* updateTimer after updateEntry answered: the functional updates of
\* pausedTimers and activeTimers
UpdateReply ==
    \E p \in pending :
        /\ p.op \in {"pause", "resume", "end"} /\ p.phase = "reply"
        /\ pending' = pending \ {p}
        /\ lastOp' = ClientOp(p.op, p.ok, p.id)
        /\ pausedTimers' =
            IF ~p.ok THEN pausedTimers
            ELSE IF p.op = "pause" THEN pausedTimers \cup {p.id}
            ELSE pausedTimers \ {p.id}
        /\ activeTimers' =
            IF ~p.ok THEN activeTimers
            ELSE IF p.op = "end"
            THEN [i \in DOMAIN activeTimers \ {p.id} |-> activeTimers[i]]
            ELSE [i \in DOMAIN activeTimers |->
                    IF i # p.id THEN activeTimers[i]
                    ELSE IF p.op = "pause"
                    THEN [activeTimers[i] EXCEPT
                            !.status = "paused",
                            !.total_seconds = p.updateData.total_seconds,
                            !.startTime = p.updateData.start_time]
                    ELSE [activeTimers[i] EXCEPT
                            !.status = "active",
                            !.startTime = p.updateData.start_time]]
        /\ UNCHANGED <<rows, nextId, notPending>>

NextPending ==
    \/ StartClick
    \/ GpsSettle
    \/ StartPost
    \/ StartReply
    \/ UpdateClick
    \/ EndGps
    \/ AddTimeClick
    \/ AddTimePost
    \/ UpdateServe
    \/ UpdateReply

SpecPending == Init /\ [][NextPending]_vars

(***************************************************************************)
(* Properties of the store.                                                *)
(***************************************************************************)
Open(r) == r.end_time = NULL
ActiveOpen(r) == r.status = "active" /\ r.end_time = NULL
Done(r) == r.status \in {"completed", "Completed"}

ActiveEntry(j, e) == [job_no |-> j, employee_code |-> e, status |-> "active"]
OmittedEntry(j, e) == [job_no |-> j, employee_code |-> e]
BackfillEntry(j, e, t) ==
    [job_no |-> j, employee_code |-> e, status |-> "completed",
     total_seconds |-> 1, end_time |-> t]

\* C1: the table never holds two rows with status 'active' and end_time NULL
\* for the same employee_code and job_no.
C1_OneActivePerJobEmployee ==
    \A i \in DOMAIN rows, k \in DOMAIN rows :
        (/\ i # k
         /\ ActiveOpen(rows[i])
         /\ ActiveOpen(rows[k])
         /\ rows[i].employee_code = rows[k].employee_code)
            => rows[i].job_no # rows[k].job_no

\* C2: createEntry with status omitted stores status 'active' and is checked
\* exactly as an entry with status 'active' is (rejected, the table unchanged,
\* when an active open row of the pair exists); createEntry with status
\* 'completed' succeeds and stores the completed row whatever rows exist.
C2_DefaultActiveBackfillUnchecked ==
    \A j \in JobNos, e \in Owners :
        LET omitted == createEntry(rows, OmittedEntry(j, e), nextId, now)
            active == createEntry(rows, ActiveEntry(j, e), nextId, now)
            backfill == createEntry(rows, BackfillEntry(j, e, now), nextId, now)
            activeExists ==
                \E i \in DOMAIN rows :
                    /\ ActiveOpen(rows[i])
                    /\ rows[i].job_no = Trim(j)
                    /\ rows[i].employee_code = Trim(e)
        IN  /\ omitted.ok => omitted.table[nextId].status = "active"
            /\ omitted.ok = active.ok
            /\ activeExists => ~omitted.ok /\ omitted.table = rows
            /\ backfill.ok
            /\ backfill.table[nextId].status = "completed"
            /\ \A i \in DOMAIN rows : backfill.table[i] = rows[i]

\* C2 witness: the last call created a completed row while an active open row
\* of the same job and employee exists.
C2_Witness ==
    /\ lastOp.op = "create"
    /\ lastOp.ok
    /\ lastOp.id \in DOMAIN rows
    /\ rows[lastOp.id].status = "completed"
    /\ \E i \in DOMAIN rows :
        /\ ActiveOpen(rows[i])
        /\ rows[i].job_no = rows[lastOp.id].job_no
        /\ rows[i].employee_code = rows[lastOp.id].employee_code

C4_InsertLands ==
    \A s \in Sessions :
        (sess[s].pc = "insert" /\ sess'[s].pc = "idle") =>
            /\ lastOp'.op = "create"
            /\ lastOp'.ok
            /\ rows' = Insert(rows, InsertedRow(sess[s].entry, nextId, now))

\* C4: a createEntry call that has passed its duplicate check inserts its row
\* whatever the other session has inserted since the check: nothing re-checks
\* at the INSERT, so two calls for one (job_no, employee_code) that both check
\* before either inserts leave two active open rows.
C4_CheckThenActNotAtomic == [][C4_InsertLands]_vars

\* C4 witness: two rows with status 'active' and end_time NULL for the same
\* job_no and employee_code, the job_no being one the check compares as is.
C4_Witness ==
    \E i \in DOMAIN rows, k \in DOMAIN rows :
        /\ i # k
        /\ ActiveOpen(rows[i])
        /\ ActiveOpen(rows[k])
        /\ rows[i].job_no = rows[k].job_no
        /\ rows[i].job_no = Trim(rows[i].job_no)
        /\ rows[i].employee_code = rows[k].employee_code

C5_StopOutcome ==
    \A id \in Ids, employeeCode \in Callers :
        LET res == stopEntry(rows, id, employeeCode, now) IN
        /\ res.ok =>
            /\ id \in DOMAIN rows
            /\ rows[id].end_time = NULL
            /\ employeeCode # NoEmployee => rows[id].employee_code = employeeCode
            /\ res.table[id].end_time # NULL
        /\ (id \in DOMAIN rows /\ rows[id].end_time # NULL) =>
            /\ ~res.ok
            /\ res.error = "Entry not found or already stopped"
            /\ res.table = rows

C5_StopStep ==
    /\ (lastOp'.op = "stop" /\ lastOp'.ok) =>
        /\ lastOp'.id \in DOMAIN rows
        /\ rows[lastOp'.id].end_time = NULL
        /\ rows'[lastOp'.id].end_time # NULL
    /\ (lastOp'.op = "stop" /\ ~lastOp'.ok) => rows' = rows
    /\ \A id \in DOMAIN rows \cap DOMAIN rows' :
        rows[id].end_time # NULL => rows'[id].end_time = rows[id].end_time

\* C5: stopEntry succeeds only on a row whose end_time is NULL and, when
\* employeeCode is given, whose employee_code matches; on a row whose end_time
\* is set it returns 'Entry not found or already stopped' and changes no row;
\* a successful stop sets end_time and no call clears it, so a row is stopped
\* successfully at most once.
C5_StopOnlyOpenRows == [](C5_StopOutcome) /\ [][C5_StopStep]_vars

\* C5 witness: a stop by the owner was refused on a row that is already
\* stopped.
C5_Witness ==
    /\ lastOp.op = "stop"
    /\ ~lastOp.ok
    /\ lastOp.id \in DOMAIN rows
    /\ rows[lastOp.id].employee_code = lastOp.employeeCode
    /\ rows[lastOp.id].status = "Completed"
    /\ rows[lastOp.id].end_time # NULL

\* C6: while an entry is active, total_seconds + (now - start_time) computed
\* from the stored row is the time the entry has been active since its
\* creation, to the second, whatever pauses, resumes, syncs and reloads
\* came before.
C6_StoredRowTellsActiveTime ==
    \A i \in DOMAIN rows :
        (rows[i].status = "active" /\ rows[i].end_time = NULL
            /\ i \in DOMAIN activeSecs) =>
            Abs(TotalOf(rows[i]) + (now - rows[i].start_time) - activeSecs[i])
                <= 1

\* C7: a pause, a resume, a sync or a stopEntry never makes the total_seconds
\* of a row smaller.
C7_TotalNotSmaller ==
    lastOp'.op \in {"pause", "resume", "sync", "stop"} =>
        \A i \in DOMAIN rows \cap DOMAIN rows' :
            TotalOf(rows'[i]) >= TotalOf(rows[i])
C7_TotalSecondsMonotonic == [][C7_TotalNotSmaller]_vars

\* C8: a row's end_time is NULL if and only if its status is active or
\* paused.
C8_EndTimeNullIffOpenStatus ==
    \A i \in DOMAIN rows :
        rows[i].end_time = NULL <=> rows[i].status \in {"active", "paused"}

C9_Persisting == DOMAIN rows \cap DOMAIN rows'

\* C9 as stated: once a row is completed no store operation other than delete
\* brings it back to active or paused.
C9_CompletedIsTerminal ==
    [][\A id \in C9_Persisting : Done(rows[id]) => Done(rows'[id])]_vars

C9_NoStatusInputs(t) == {u \in UpdateInputs(t) : ~Has(u, "status")}

C9_ReopenedOnlyByStatusUpdate ==
    \A id \in C9_Persisting :
        (Done(rows[id]) /\ ~Done(rows'[id])) =>
            /\ lastOp'.op = "update"
            /\ lastOp'.ok
            /\ lastOp'.id = id

C9_OtherCallsKeepCompleted ==
    \A id \in DOMAIN rows :
        Done(rows[id]) =>
            /\ \A employeeCode \in Callers :
                Done(stopEntry(rows, id, employeeCode, now).table[id])
            /\ \A employeeCode \in Callers, u \in C9_NoStatusInputs(now) :
                Done(updateEntry(rows, id, u, employeeCode, now).table[id])
            /\ \A entry \in EntryInputs(now) :
                Done(createEntry(rows, entry, nextId, now).table[id])

\* C9 amended: once a row is completed, only an updateEntry whose request
\* carries a status field (or a delete) ends that: createEntry, stopEntry and
\* an updateEntry without status leave it completed.
C9_CompletedLeftOnlyByStatusUpdate ==
    [](C9_OtherCallsKeepCompleted) /\ [][C9_ReopenedOnlyByStatusUpdate]_vars

\* C9 witness: an update has just been applied to a row that was completed
\* (its end_time is set) and the row is active again.
C9_Witness ==
    /\ lastOp.op = "update"
    /\ lastOp.ok
    /\ lastOp.id \in DOMAIN rows
    /\ rows[lastOp.id].status = "active"
    /\ rows[lastOp.id].end_time # NULL

C10_Whitelist ==
    {"job_no", "job_name", "employee_code", "employee_name", "account_no",
     "account_name", "comment", "spire_status", "status", "total_seconds",
     "start_time", "start_location", "end_location"}

\* C10: updateEntry changes, in the target row only, the columns that are in
\* the request and in the whitelist, plus updated_at; a request without a
\* whitelisted field returns 'No valid fields to update' and changes nothing.
C10_UpdateFrame ==
    \A id \in Ids, employeeCode \in Callers, u \in UpdateInputs(now) :
        LET res == updateEntry(rows, id, u, employeeCode, now)
            asked == DOMAIN u \cap C10_Whitelist
        IN  /\ DOMAIN res.table = DOMAIN rows
            /\ \A i \in DOMAIN rows : i # id => res.table[i] = rows[i]
            /\ id \in DOMAIN rows =>
                \A c \in DOMAIN rows[id] :
                    IF res.ok /\ c \in asked THEN res.table[id][c] = u[c]
                    ELSE IF res.ok /\ c = "updated_at" THEN res.table[id][c] = now
                    ELSE res.table[id][c] = rows[id][c]
            /\ asked = {} =>
                /\ ~res.ok
                /\ res.error = "No valid fields to update"
                /\ res.table = rows
            /\ ~res.ok => res.table = rows

\* C10 witness: the client's end request (status, total_seconds and the
\* non-whitelisted end_time) has been applied: status and total_seconds
\* changed, end_time did not.
C10_Witness ==
    /\ lastOp.op = "update"
    /\ lastOp.ok
    /\ lastOp.id \in DOMAIN rows
    /\ rows[lastOp.id].status = "completed"
    /\ rows[lastOp.id].total_seconds = 1
    /\ rows[lastOp.id].end_time = NULL
    /\ rows[lastOp.id].updated_at > rows[lastOp.id].start_time

\* C11 as stated: with employeeCode supplied, getEntryById, updateEntry,
\* stopEntry and deleteEntry on a row of another employee return a not-found
\* failure and leave the table as it is, and the two listings return only rows
\* of that employee.
C11_NotOwned(id, e) ==
    e # NoEmployee /\ id \in DOMAIN rows /\ rows[id].employee_code # e
C11_ReadsAndStopDeleteScoped ==
    \A e \in Callers \ {NoEmployee} :
        /\ \A id \in Ids :
            C11_NotOwned(id, e) =>
                /\ ~getEntryById(rows, id, e).ok
                /\ getEntryById(rows, id, e).error = "Entry not found"
                /\ ~stopEntry(rows, id, e, now).ok
                /\ stopEntry(rows, id, e, now).table = rows
                /\ stopEntry(rows, id, e, now).error
                        = "Entry not found or already stopped"
                /\ ~deleteEntry(rows, id, e).ok
                /\ deleteEntry(rows, id, e).table = rows
                /\ deleteEntry(rows, id, e).error = "Entry not found"
        /\ getActiveEntries(rows, e) =
            {i \in DOMAIN rows : rows[i].end_time = NULL
                                 /\ rows[i].employee_code = e}
        /\ getAllEntries(rows, DefaultLimit, e) =
            {i \in DOMAIN rows : rows[i].employee_code = e}
C11_UpdateRefused ==
    \A e \in Callers, id \in Ids, updates \in UpdateInputs(now) :
        C11_NotOwned(id, e) =>
            /\ ~updateEntry(rows, id, updates, e, now).ok
            /\ updateEntry(rows, id, updates, e, now).table = rows
C11_OwnershipScopedNotFound ==
    /\ C11_ReadsAndStopDeleteScoped
    /\ C11_UpdateRefused
    /\ \A e \in Callers, id \in Ids, updates \in UpdateInputs(now) :
        C11_NotOwned(id, e) =>
            updateEntry(rows, id, updates, e, now).error = "Entry not found"

\* C11 amended: as above, except that updateEntry on a row of another employee
\* fails with 'No valid fields to update' when the request holds no
\* whitelisted column (the request is filtered before the row is looked up)
\* and with 'Entry not found' otherwise; the table is left as it is in both
\* cases.
C11_OwnershipScoped ==
    /\ C11_ReadsAndStopDeleteScoped
    /\ C11_UpdateRefused
    /\ \A e \in Callers, id \in Ids, updates \in UpdateInputs(now) :
        C11_NotOwned(id, e) =>
            updateEntry(rows, id, updates, e, now).error =
                IF UpdateFields(updates) = {} THEN "No valid fields to update"
                ELSE "Entry not found"

\* C11 witness: a delete by another employee has just been refused on a row
\* that is still in the table.
C11_Witness ==
    /\ lastOp.op = "delete" /\ ~lastOp.ok
    /\ C11_NotOwned(lastOp.id, lastOp.employeeCode)

(***************************************************************************)
(* Properties of the authentication.                                       *)
(***************************************************************************)
RequestHeaders == HeaderInputs(now) \cup {<<"Bearer", session.token>>}

\* the header carries a token that is signed and not expired
ValidToken(header) ==
    /\ TokenOf(header) # NoToken
    /\ TokenOf(header).signed
    /\ now < TokenOf(header).exp

\* a row with the token's id and emp_code exists / exists and is verified
TokenUser(header) ==
    \E i \in DOMAIN users :
        i = TokenOf(header).id /\ users[i].emp_code = TokenOf(header).empcode
TokenUserVerified(header) ==
    \E i \in DOMAIN users :
        /\ i = TokenOf(header).id
        /\ users[i].emp_code = TokenOf(header).empcode
        /\ users[i].verified

\* C12: authenticateToken calls the handler only for a signed, unexpired token
\* and, when the user query succeeds, only if a verified row with the token's
\* id and emp_code exists; no token gives 401, an invalid or expired token 403,
\* a missing user 401 USER_DELETED, an unverified user 401 USER_NOT_VERIFIED,
\* and a request that got a response never reaches the handler.
C12_HandlerOnlyForValidVerified ==
    \A header \in RequestHeaders :
        LET res == authenticateToken(header, users, dbUp, now) IN
        /\ res.next => ValidToken(header) /\ (dbUp => TokenUserVerified(header))
        /\ TokenOf(header) = NoToken => res.status = 401 /\ res.code = ""
        /\ (TokenOf(header) # NoToken /\ ~ValidToken(header)) => res.status = 403
        /\ (ValidToken(header) /\ dbUp /\ ~TokenUser(header)) =>
                res.status = 401 /\ res.code = "USER_DELETED"
        /\ (ValidToken(header) /\ dbUp /\ TokenUser(header)
                /\ ~TokenUserVerified(header)) =>
                res.status = 401 /\ res.code = "USER_NOT_VERIFIED"
        /\ res.status # 0 => ~res.next
        /\ res.status = 0 => res.next

\* C12 witness: a request with a valid token of an unverified user has just
\* been answered 401 USER_NOT_VERIFIED.
C12_Witness ==
    /\ lastAuth.op = "request" /\ lastAuth.status = 401
    /\ lastAuth.code = "USER_NOT_VERIFIED" /\ ~lastAuth.next
    /\ \E i \in DOMAIN users : ~users[i].verified

\* C13: while the user query fails, a request with a signed, unexpired token
\* reaches the handler with req.user taken from the token, and a request
\* without a token or with an invalid or expired one is still rejected.
C13_LookupFailureLetsValidTokenPass ==
    ~dbUp =>
        \A header \in RequestHeaders :
            LET res == authenticateToken(header, users, dbUp, now) IN
            /\ ValidToken(header) => res.next /\ res.user = TokenOf(header)
            /\ TokenOf(header) = NoToken => res.status = 401 /\ ~res.next
            /\ (TokenOf(header) # NoToken /\ ~ValidToken(header)) =>
                    res.status = 403 /\ ~res.next

\* C13 witness: the handler has been reached on a failed user query while the
\* users table holds no row at all.
C13_Witness ==
    /\ lastAuth.op = "request" /\ lastAuth.next /\ lastAuth.lookup = "failed"
    /\ ~dbUp /\ users = <<>>

\* the outcome handleLogin tells apart: error and code
LoginOutcome(emp_code, password) ==
    LET res == login(session, loginRoute(users, dbUp, emp_code, password, now))
    IN  <<res.success, res.error, res.code>>

\* emp_code and password are those of a user that is not verified
UnverifiedCredentials(emp_code, password) ==
    \E i \in DOMAIN users :
        /\ users[i].emp_code = emp_code
        /\ verifyPassword(password, users[i].password)
        /\ ~users[i].verified

C14_UnverifiedOutcome ==
    (dbUp /\ ~session.isAuthenticated) =>
        \A emp_code \in EmpCodes, password \in LoginPasswords :
            UnverifiedCredentials(emp_code, password) =>
                LET data == loginRoute(users, dbUp, emp_code, password, now)
                    res == login(session, data)
                IN  /\ ~res.success
                    /\ res.error = "Account not verified"
                    /\ res.session = session
                    /\ ~res.session.isAuthenticated
                    /\ res.session.token = NoToken
                    /\ \A e2 \in EmpCodes, p2 \in LoginPasswords :
                        loginRoute(users, dbUp, e2, p2, now).code
                            \in {"USER_NOT_FOUND", "INVALID_PASSWORD"} =>
                            LoginOutcome(e2, p2) # LoginOutcome(emp_code, password)

C14_UnverifiedStep ==
    (lastAuth'.op = "login" /\ lastAuth'.error = "Account not verified") =>
        /\ session' = session
        /\ ~session'.isAuthenticated
        /\ session'.token = NoToken

\* C14: a login with the emp_code and password of a user that is not verified
\* returns the failure 'Account not verified', which differs from the
\* USER_NOT_FOUND and INVALID_PASSWORD outcomes, and leaves the session without
\* token and not authenticated.
C14_UnverifiedLoginNoSession ==
    [](C14_UnverifiedOutcome) /\ [][C14_UnverifiedStep]_vars

\* C14 witness: the login of an unverified user with the right password has
\* just been answered 200 by the server and refused by the client.
C14_Witness ==
    /\ lastAuth.op = "login" /\ lastAuth.status = 200
    /\ lastAuth.error = "Account not verified"
    /\ ~session.isAuthenticated /\ session.token = NoToken

(***************************************************************************)
(* Properties of the favorites.                                            *)
(***************************************************************************)
C15_Unique ==
    \A e \in FavUsers :
        \A i, k \in 1..Len(favorites[e]) :
            favorites[e][i].job_no = favorites[e][k].job_no => i = k

C15_AddIsUpsert ==
    \A e \in FavUsers, jobData \in FavInputs :
        LET list == favorites[e]
            new == addJobToFavorites(list, jobData, now)
            at == findIndex(list, jobData.job_no)
        IN  at # 0 =>
                /\ Len(new) = Len(list)
                /\ \A k \in 1..Len(list) : k # at => new[k] = list[k]
                /\ new[at].job_no = jobData.job_no
                /\ new[at].acc_no = jobData.acc_no
                /\ new[at].acc_name = jobData.acc_name
                /\ new[at].updated_at = now
                /\ new[at].added_at = list[at].added_at

\* C15: from the empty list, after any serial sequence of addJobToFavorites,
\* removeJobFromFavorites and toggleJobFavorite calls the list holds at most
\* one entry per job_no, and adding a job_no that is present adds no entry but
\* overwrites acc_no and acc_name of the entry and sets its updated_at.
C15_FavoritesUniquePerJob == C15_Unique /\ C15_AddIsUpsert

\* C15 witness: an add has just overwritten the account of an entry that was
\* in the list, which holds two entries.
C15_Witness ==
    /\ lastFav.op = "add" /\ lastFav.action = "updated"
    /\ Len(favorites["E1"]) = 2
    /\ \E i \in 1..2 :
        /\ "updated_at" \in DOMAIN favorites["E1"][i]
        /\ favorites["E1"][i].acc_no = "A2"

(***************************************************************************)
(* Properties of ensureTable.                                              *)
(***************************************************************************)
\* the table has the target schema: UUID id, every column, every index
EntryTarget(t) ==
    /\ t.exists /\ t.idType = "uuid"
    /\ EntryColumns \subseteq t.columns
    /\ EntryIndexes \cup {"employee_code"} \subseteq t.indexes
UserTarget(t) ==
    /\ t.exists /\ t.idType = "uuid"
    /\ UserColumns \subseteq t.columns
    /\ UserIndexes \subseteq t.indexes

C16_NoChangeOnTarget ==
    /\ EntryTarget(schema.entries) =>
        LET res == ensureTable(schema.entries, NoStep) IN
        res.success /\ res.changes = {} /\ res.table = schema.entries
    /\ UserTarget(schema.users) =>
        LET res == ensureUsersTable(schema.users, NoStep) IN
        res.success /\ res.changes = {} /\ res.table = schema.users

C16_RepeatStep ==
    /\ (lastEnsure'.store = "entries" /\ lastEnsure'.failAt = NoStep
            /\ EntryTarget(schema.entries)) =>
            schema' = schema /\ lastEnsure'.success
    /\ (lastEnsure'.store = "users" /\ lastEnsure'.failAt = NoStep
            /\ UserTarget(schema.users)) =>
            schema' = schema /\ lastEnsure'.success

\* C16: ensureTable called again and again on a table that has the target
\* schema changes no column and no index and returns success every time.
C16_EnsureTableIdempotent ==
    [](C16_NoChangeOnTarget) /\ [][C16_RepeatStep]_vars

\* C16 witness: a call on the time-entry table has just succeeded without any
\* change, both tables having the target schema and holding rows.
C16_Witness ==
    /\ lastEnsure.store = "entries" /\ lastEnsure.success
    /\ lastEnsure.changes = {}
    /\ EntryTarget(schema.entries) /\ UserTarget(schema.users)
    /\ schema.entries.data # {}

\* the table awaits the legacy-id migration
Legacy(t) == t.exists /\ "id" \in t.columns /\ t.idType # "uuid"

\* C17: when the migration of PgStore.ensureTable fails at a step after the
\* backup table was created (drop, recreate, restore, drop backup), every
\* original row is still in the backup table and the call returns a failure
\* result.
C17_BackupKeepsRowsOnFailure ==
    \A failAt \in {Stmt("drop", ""), Stmt("create", ""), Stmt("restore", ""),
                   Stmt("dropBackup", "")} :
        (Legacy(schema.entries) /\ ~schema.entries.backup.exists) =>
            LET res == ensureTable(schema.entries, failAt) IN
            /\ ~res.success
            /\ res.error = failAt
            /\ res.table.backup.exists
            /\ schema.entries.data \subseteq res.table.backup.data

\* C17 witness: the migration of the time-entry table has just failed at the
\* restore: the new table is empty and the rows are in the backup.
C17_Witness ==
    /\ lastEnsure.store = "entries" /\ ~lastEnsure.success
    /\ lastEnsure.failAt = Stmt("restore", "")
    /\ schema.entries.exists /\ schema.entries.data = {}
    /\ schema.entries.backup.exists /\ schema.entries.backup.data = LegacyRows

(***************************************************************************)
(* C18: fetchJobs with page size 50 against a dataset of N <= 500 records, *)
(* every page request succeeding and the first page reporting count = N,   *)
(* returns exactly the N records of the dataset, in ceil(N / 50) page      *)
(* requests (one when N = 0), and no request asks for an offset at or past *)
(* the end of the dataset (except the single request of an empty dataset). *)
(***************************************************************************)
CeilDiv(a, b) == (a + b - 1) \div b

\* the pages tile the records 0 .. n-1 in order
RECURSIVE Tiles(_, _, _)
Tiles(pages, from, n) ==
    IF pages = <<>> THEN from = n
    ELSE /\ Head(pages).offset = from
         /\ Head(pages).n > 0
         /\ Tiles(Tail(pages), from + Head(pages).n, n)

C18_Case ==
    /\ fetch.pc = "returned"
    /\ fetch.failures = 0
    /\ fetch.count = fetch.dataset
    /\ fetch.dataset <= 500

C18_FetchJobsExactPages ==
    C18_Case =>
        /\ JobsLength(fetch.allJobs) = fetch.dataset
        /\ Tiles(fetch.allJobs, 0, fetch.dataset)
        /\ Len(fetch.requests) =
               IF fetch.dataset = 0 THEN 1 ELSE CeilDiv(fetch.dataset, 50)
        /\ \A i \in DOMAIN fetch.requests :
               /\ fetch.requests[i] = (i - 1) * 50
               /\ fetch.requests[i] < Max(fetch.dataset, 1)

C18_Witness ==
    /\ C18_Case
    /\ fetch.dataset = 125
    /\ JobsLength(fetch.allJobs) = 125
    /\ fetch.requests = <<0, 50, 100>>

(***************************************************************************)
(* C19: in every reachable state of an open entry, after any sequence of   *)
(* start, pause, resume and sync writes, total_seconds holds only time     *)
(* accumulated before start_time: total_seconds plus the time run since    *)
(* start_time (none while paused) never exceeds the time the entry has     *)
(* been active, for the server row and for the client's local timer alike. *)
(***************************************************************************)
\* the seconds (total, start) tell at this moment for an entry of the status
ToldSeconds(total, start, status) ==
    IF status = "active" THEN total + (now - start) ELSE total

C19_OpenRows ==
    {i \in DOMAIN rows \cap DOMAIN activeSecs :
        rows[i].end_time = NULL /\ rows[i].status \in {"active", "paused"}}

C19_NoIntervalCountedTwice ==
    \A i \in C19_OpenRows :
        /\ ToldSeconds(TotalOf(rows[i]), rows[i].start_time, rows[i].status)
               <= activeSecs[i]
        /\ (i \in DOMAIN activeTimers
                /\ activeTimers[i].status = rows[i].status) =>
               ToldSeconds(activeTimers[i].total_seconds,
                           activeTimers[i].startTime,
                           activeTimers[i].status) <= activeSecs[i]

(***************************************************************************)
(* C20: in the client's timer state at most one timer is active and not    *)
(* paused, after any sequence of start, pause, resume and end actions, an  *)
(* action triggered while an earlier one still waits for its GPS fix or    *)
(* its server reply included.                                              *)
(***************************************************************************)
C20_AtMostOneRunning ==
    Cardinality(Running(activeTimers, pausedTimers)) <= 1

(***************************************************************************)
(* C21: when captureGPSLocation fails, the start-timer, end-timer and      *)
(* add-time flows show an error and stop: no createEntry or updateEntry    *)
(* call reaches the store, no local timer is added or removed, the timer   *)
(* of the end flow stays open, and the call is not continued.              *)
(***************************************************************************)
\* the calls whose GPS capture has failed and whose handler runs in this step
C21_Aborted == {p \in pending : p.phase = "nofix" /\ p \notin pending'}

C21_GpsFailureStep ==
    C21_Aborted # {} =>
        /\ ~lastOp'.ok
        /\ rows' = rows /\ nextId' = nextId
        /\ activeTimers' = activeTimers /\ pausedTimers' = pausedTimers
        /\ pending' = pending \ C21_Aborted
        /\ \A p \in C21_Aborted :
               p.op = "end" =>
                   /\ p.id \in DOMAIN rows' => rows'[p.id] = rows[p.id]
                   /\ p.id \in DOMAIN activeTimers =>
                          p.id \in DOMAIN activeTimers'

C21_GpsFailureAborts == [][C21_GpsFailureStep]_vars

\* an end flow has just been given up for want of a location, its timer
\* still open on both sides
C21_Witness ==
    /\ lastOp = ClientOp("end", FALSE, 1)
    /\ 1 \in DOMAIN rows /\ rows[1].end_time = NULL
    /\ 1 \in DOMAIN activeTimers
    /\ pending = {}

(***************************************************************************)
(* C22: while a running timer is displayed the reconciliation pass runs    *)
(* every 30 seconds: a running timer whose displayed elapsed seconds are   *)
(* more than 10 away from its total_seconds, with a full sync interval of  *)
(* time still ahead, is eventually written by the pass, unless it stops    *)
(* running or the user or another client acts first.                       *)
(***************************************************************************)
C22_Drifted(i) ==
    /\ i \in ToSync(activeTimers, pausedTimers)
    /\ now + SyncInterval <= MaxClientTime

C22_Settled(i) ==
    \/ lastOp.op = "sync" /\ lastOp.ok /\ lastOp.id = i
    \/ i \notin Running(activeTimers, pausedTimers)
    \/ lastOp.op \notin {"tick", "advance", "sync"}

C23_Minutes(str) == Number(str[1]) * 60 + Number(str[2])

C23_InRange(str) ==
    /\ \A k \in 1..3 : Len(str[k]) = 2
    /\ Number(str[1]) \in 0..23
    /\ Number(str[2]) \in 0..59
    /\ Number(str[3]) \in 0..59

C23_Bounded ==
    (popup.adjusted \/ popup.shown < 86400) =>
        /\ C23_InRange(popup.endTotalTime)
        /\ Number(popup.endTotalTime[3]) = popup.shown % 60

C23_AdjustStep ==
    (popup.endTotalTime # <<>> /\ popup'.endTotalTime # popup.endTotalTime) =>
        /\ popup'.endTotalTime[3] = popup.endTotalTime[3]
        /\ \E d \in {-10, 10} :
            LET moved == C23_Minutes(popup.endTotalTime) + d IN
            C23_Minutes(popup'.endTotalTime) =
                IF moved < 0 THEN 0 ELSE IF moved > 1439 THEN 1439 ELSE moved

C23_AdjustStaysInDay == []C23_Bounded /\ [][C23_AdjustStep]_vars

\* a total of more than a day has been brought to the upper clamp
C23_Witness ==
    /\ popup.adjusted /\ popup.shown >= 86400
    /\ popup.endTotalTime = <<<<2, 3>>, <<5, 9>>, <<0, 7>>>>

(***************************************************************************)
(* C24: makeRequest makes at most retries + 1 attempts (3 with the backend *)
(* configuration, 4 with the frontend one) and throws when the last one    *)
(* fails; every error it retried was a timeout or a rejection of fetch,    *)
(* never an HTTP status and never a CORS-class failure, both of which end  *)
(* the call at once; the k-th retry was preceded by a wait of              *)
(* retryDelay * k.                                                         *)
(***************************************************************************)
C24_Attempts == [backend |-> 3, frontend |-> 4]

C24_Retried == {k \in DOMAIN req.errors : k <= Len(req.waits)}

C24_RetriesBounded ==
    req.status # "idle" =>
        LET cfg == API_CONFIG[req.copy] IN
        /\ req.attempts <= cfg.retries + 1
        /\ req.attempts <= C24_Attempts[req.copy]
        /\ req.waits = [k \in 1..Len(req.waits) |-> cfg.retryDelay * k]
        /\ Len(req.waits) =
               req.retryCount + (IF req.status = "waiting" THEN 1 ELSE 0)
        /\ req.attempts = Len(req.waits)
                          + (IF req.status \in {"returned", "thrown"}
                             THEN 1 ELSE 0)
        /\ \A k \in C24_Retried :
               /\ req.errors[k] \in {RequestTimeout} \cup Rejections
               /\ req.errors[k] \notin HttpErrors
               /\ ~IsCorsError(req.errors[k])
        /\ \A k \in DOMAIN req.errors :
               (req.errors[k] \in HttpErrors \/ IsCorsError(req.errors[k])) =>
                   /\ k = Len(req.errors)
                   /\ req.status = "thrown"
        /\ (req.attempts = cfg.retries + 1
                /\ Len(req.errors) = req.attempts) => req.status = "thrown"

\* the frontend copy has thrown after its fourth attempt
C24_Witness ==
    /\ req.status = "thrown" /\ req.copy = "frontend"
    /\ req.attempts = 4
    /\ req.waits = <<1000, 2000, 3000>>
    /\ req.thrown = RequestTimeout

(***************************************************************************)
(* C25: both pagination loops return, whatever the pages hold and          *)
(* whichever requests fail: fetchJobs issues at most 10 page requests, a   *)
(* failed page making it ask for the next offset and a CORS-class failure  *)
(* stopping it; fetchEmployees issues no request after its first failed    *)
(* page and returns the records gathered until then.                       *)
(***************************************************************************)
C25_Bounded ==
    /\ fetch.loop = "jobs" => Len(fetch.requests) <= 10
    /\ (fetch.loop = "employees" /\ fetch.failures > 0) =>
           /\ fetch.failures = 1
           /\ ~fetch.hasMore

C25_Step ==
    /\ (fetch.loop = "employees" /\ fetch.failures > 0) =>
           /\ fetch'.requests = fetch.requests
           /\ fetch'.allJobs = fetch.allJobs
    /\ (fetch.loop = "jobs" /\ fetch'.failures > fetch.failures) =>
           \/ ~fetch'.hasMore /\ fetch'.offset = fetch.offset
           \/ fetch'.hasMore /\ fetch'.offset = fetch.offset + 50
    /\ Len(fetch'.requests) > Len(fetch.requests) =>
           fetch'.requests = Append(fetch.requests, fetch.offset)

C25_LoopsTerminate ==
    /\ []C25_Bounded
    /\ [][C25_Step]_vars
    /\ <>(fetch.pc = "returned")

\* fetchJobs has returned after ten requests of which every second failed
C25_Witness ==
    /\ fetch.pc = "returned" /\ fetch.loop = "jobs"
    /\ Len(fetch.requests) = 10
    /\ fetch.failures = 5

\* fetchEmployees has returned the two pages gathered before a failure
C25_WitnessEmployees ==
    /\ fetch.pc = "returned" /\ fetch.loop = "employees"
    /\ fetch.failures = 1
    /\ Len(fetch.allJobs) = 2

(***************************************************************************)
(* C26: once the end-timer flow has ended a timer of employee E for job J  *)
(* (updateTimer 'end', accepted by PUT /api/time-entries/:id), the entry   *)
(* is no longer open: getActiveEntries for E does not return it and        *)
(* createEntry of an active timer for (J, E) is accepted.                  *)
(***************************************************************************)
C26_EndedEntryNotOpen ==
    (lastOp.op = "end" /\ lastOp.ok /\ lastOp.id \in DOMAIN rows) =>
        /\ lastOp.id \notin getActiveEntries(rows, Employee)
        /\ createEntry(rows,
                       [job_no |-> rows[lastOp.id].job_no,
                        employee_code |-> Employee, status |-> "active"],
                       nextId, now).ok

(***************************************************************************)
(* C27: whatever time-entry calls (POST, PUT, PUT stop, DELETE) are made   *)
(* with the token of one employee, every row of the table carries that     *)
(* employee's code: no call creates a row of another employee or turns a   *)
(* row into one.                                                           *)
(***************************************************************************)
C27_RowsBelongToCaller ==
    \A i \in DOMAIN rows : rows[i].employee_code = TokenEmployee

(***************************************************************************)
(* An API caller of the backend: it posts to /api/users/login, keeps the   *)
(* token of every successful response and sends it as Authorization:       *)
(* Bearer to a protected route.                                            *)
(***************************************************************************)
\* the tokens the caller keeps
MaxIssued == 2

notGate == <<rows, nextId, now, lastOp, sess, clientVars, authVars, favVars,
            schemaVars, fetchVars, pendingVars, popupVars, reqVars, poolVars,
            favSessVars>>

\* POST /api/users/login: res.json({success: true, token, user}) is sent
\* whatever user.verified is
ApiLogin ==
    \E emp_code \in EmpCodes, password \in LoginPasswords :
        LET data == loginRoute(users, dbUp, emp_code, password, now) IN
        /\ data.success =>
               Cardinality(gate.issued \cup {data.token}) <= MaxIssued
        /\ gate' = [issued |-> IF data.success
                               THEN gate.issued \cup {data.token}
                               ELSE gate.issued,
                    last |-> [op |-> "login", status |-> data.status,
                              code |-> data.code, next |-> FALSE,
                              lookup |-> "none", user |-> <<>>]]
        /\ UNCHANGED notGate

\* a request to a route behind authenticateToken, carrying a token the login
\* route has issued
GateRequest ==
    \E token \in gate.issued :
        LET res == authenticateToken(<<"Bearer", token>>, users, dbUp, now) IN
        /\ gate' = [gate EXCEPT !.last =
                        [op |-> "request", status |-> res.status,
                         code |-> res.code, next |-> res.next,
                         lookup |-> res.lookup, user |-> token]]
        /\ UNCHANGED notGate

NextGate ==
    \/ Signup
    \/ VerifyUser
    \/ DbFlip
    \/ ApiLogin
    \/ GateRequest
    \/ Advance

SpecGate == Init /\ [][NextGate]_vars

(***************************************************************************)
(* C28: in any sequence of signup, login, verify and database-outage       *)
(* events, a request whose token belongs to a user whose verified flag is  *)
(* FALSE is never passed on by authenticateToken to the protected handler. *)
(***************************************************************************)
C28_PassedUnverified ==
    /\ gate'.last # gate.last
    /\ gate'.last.op = "request"
    /\ gate'.last.next
    /\ \E i \in UserCheck(users', gate'.last.user) : ~users'[i].verified

C28_UnverifiedNeverPasses == [][~C28_PassedUnverified]_vars

(***************************************************************************)
(* The pg pool of a store (backend/pg-store.js, backend/user-store.js):    *)
(* pool.connect() checks a client out, client.release() hands it back.     *)
(* A store call is a sequence of try blocks, each of which connects, runs  *)
(* its queries and releases; its catch block releases nothing.             *)
(***************************************************************************)
\* the clients of the pool (new Pool({...}) sets no max; pg's default is 10)
PoolSize == 3

\* ensureFavoritesColumn: connect, the column check, release; its catch logs
\* the error and returns, so the caller goes on
FavoritesColumnBlock == [queries |-> 1, swallows |-> TRUE, select |-> 0]

\* connect, SELECT favorites, UPDATE ... SET favorites, release; no row
\* selected: release and return 'User not found'
FavoritesBlock == [queries |-> 2, swallows |-> FALSE, select |-> 1]

\* the try blocks of the store calls, with the queries of the run that finds
\* the schema in place
StoreCalls ==
    [PgEnsureTable |-> <<[queries |-> 6, swallows |-> FALSE, select |-> 0]>>,
     UserEnsureTable |-> <<[queries |-> 6, swallows |-> FALSE, select |-> 0]>>,
     addJobToFavorites |-> <<FavoritesColumnBlock, FavoritesBlock>>,
     removeJobFromFavorites |-> <<FavoritesColumnBlock, FavoritesBlock>>,
     toggleJobFavorite |-> <<FavoritesColumnBlock, FavoritesBlock>>]

\* the try block a running call is in
Block(p) == StoreCalls[p.call][p.seg]

\* the call leaves its try block: the next block, or the call returns
LeaveBlock(p, ok) ==
    IF p.seg < Len(StoreCalls[p.call]) /\ (ok \/ Block(p).swallows)
    THEN [p EXCEPT !.seg = p.seg + 1, !.step = 0, !.held = FALSE]
    ELSE [p EXCEPT !.call = "", !.seg = 0, !.step = 0, !.held = FALSE,
                   !.success = ok]

\* client.release()
release(p) == [p EXCEPT !.out = p.out - 1, !.held = FALSE]

\* mutant: the catch block releases the client (try/finally)
CatchReleases(p) == LeaveBlock(release(p), FALSE)

\* catch (error): the error is returned or logged, the client stays checked out
Catch(p) == LeaveBlock(p, FALSE)

notPool == <<rows, nextId, now, lastOp, sess, clientVars, authVars, favVars,
            schemaVars, fetchVars, pendingVars, popupVars, reqVars,
            favSessVars, gateVars>>

\* the server calls a store method; the store runs one call at a time
StoreCall ==
    \E call \in DOMAIN StoreCalls :
        /\ pool.call = ""
        /\ pool' = [pool EXCEPT !.call = call, !.seg = 1, !.step = 0,
                                !.failed = FALSE]
        /\ UNCHANGED notPool

\* await this.pool.connect(): resolves once an idle client exists
PoolConnect ==
    /\ pool.call # "" /\ pool.step = 0
    /\ pool.out < PoolSize
    /\ pool' = [pool EXCEPT !.out = pool.out + 1, !.held = TRUE, !.step = 1]
    /\ UNCHANGED notPool

\* await client.query(...): it resolves, or it rejects and control is in catch
ClientQuery ==
    \E outcome \in {"rows", "none", "throws"} :
        /\ pool.call # "" /\ pool.held
        /\ pool.step \in 1..Block(pool).queries
        /\ outcome = "none" => pool.step = Block(pool).select
        /\ pool' = CASE outcome = "throws" ->
                            Catch([pool EXCEPT !.failed = TRUE])
                     [] outcome = "none" ->
                            LeaveBlock(release(pool), FALSE)
                     [] OTHER -> [pool EXCEPT !.step = pool.step + 1]
        /\ UNCHANGED notPool

\* client.release() after the last query of the block
ClientRelease ==
    /\ pool.call # "" /\ pool.held
    /\ pool.step = Block(pool).queries + 1
    /\ pool' = LeaveBlock(release(pool), TRUE)
    /\ UNCHANGED notPool

NextPool ==
    \/ StoreCall
    \/ PoolConnect
    \/ ClientQuery
    \/ ClientRelease

\* node's event loop runs every continuation that is ready
SpecPool == Init /\ [][NextPool]_vars /\ WF_vars(NextPool)

(***************************************************************************)
(* C29: every client that ensureTable, addJobToFavorites,                  *)
(* removeJobFromFavorites or toggleJobFavorite checks out with             *)
(* pool.connect() is released again, also when a query throws: once the    *)
(* call has returned none of its clients is checked out, a checked-out     *)
(* client is eventually back in the pool, and the pool is never left       *)
(* without an idle client for the next call.                               *)
(***************************************************************************)
C29_Released == pool.call = "" => pool.out = 0

C29_EveryClientReleased ==
    /\ []C29_Released
    /\ (pool.out > 0) ~> (pool.out = 0)
    /\ [](pool.out = PoolSize => pool.held)

(***************************************************************************)
(* Two requests of one user run addJobToFavorites at once                  *)
(* (backend/user-store.js): each call awaits its SELECT and its UPDATE on  *)
(* a pool client of its own, the statements committed one by one.          *)
(***************************************************************************)
FavSessions == DOMAIN NoFavSess

\* the user of the two requests
FavUser == "E1"

\* the job each request adds: the two job_no values differ
FavJob(s) == IF s = 1 THEN "J1" ELSE "J2"

notFavSess == <<rows, nextId, now, lastOp, sess, clientVars, authVars, lastFav,
               schemaVars, fetchVars, pendingVars, popupVars, reqVars,
               poolVars, gateVars>>

\* mutant: the SELECT waits while the other call is between its SELECT and
\* its UPDATE (SELECT ... FOR UPDATE in one transaction)
RowIsLocked(fs, s) == \E o \in DOMAIN fs \ {s} : fs[o].pc = "selected"

\* the SELECT takes no lock on the row
RowLocked(fs, s) == FALSE

\* SELECT favorites FROM users WHERE emp_code = $1
FavSelect(s) ==
    \E jobData \in {d \in FavInputs : d.job_no = FavJob(s)} :
        /\ favSess[s].pc = "idle"
        /\ ~RowLocked(favSess, s)
        /\ favSess' = [favSess EXCEPT ![s] =
                          [pc |-> "selected", jobData |-> jobData,
                           currentFavorites |-> favorites[FavUser]]]
        /\ UNCHANGED <<favorites, notFavSess>>

\* UPDATE users SET favorites = $2 WHERE emp_code = $1, $2 the list read by
\* the SELECT with the job added
FavUpdate(s) ==
    /\ favSess[s].pc = "selected"
    /\ favorites' = [favorites EXCEPT ![FavUser] =
                        addJobToFavorites(favSess[s].currentFavorites,
                                          favSess[s].jobData, now)]
    /\ favSess' = [favSess EXCEPT ![s].pc = "done"]
    /\ UNCHANGED notFavSess

\* the response is sent; the client may send the request again
FavReturn(s) ==
    /\ favSess[s].pc = "done"
    /\ favSess' = [favSess EXCEPT ![s] = NoFavSess[s]]
    /\ UNCHANGED <<favorites, notFavSess>>

NextFavRace ==
    \/ \E s \in FavSessions : FavSelect(s)
    \/ \E s \in FavSessions : FavUpdate(s)
    \/ \E s \in FavSessions : FavReturn(s)
    \/ Advance

SpecFavRace == Init /\ [][NextFavRace]_vars

(***************************************************************************)
(* C30: two addJobToFavorites calls of one user with different job_no      *)
(* values, run concurrently, both take effect: once both have returned,    *)
(* the favorites list of the user contains both jobs.                      *)
(***************************************************************************)
C30_BothJobsKept ==
    (\A s \in FavSessions : favSess[s].pc = "done") =>
        \A s \in FavSessions :
            findIndex(favorites[FavUser], favSess[s].jobData.job_no) # 0

====
